---- MODULE Spec2Model ----
(***************************************************************************)
(* A model of the kfabric verbs shim (witlox/nfsordmass): the queue-pair   *)
(* state machine, the work-request translator, the completion translator   *)
(* the 32/64-bit key translator, the PD / CQ / QP / MR usage counters and  *)
(* the memory-registration cache.                                          *)
(***************************************************************************)
EXTENDS Integers, Sequences, FiniteSets, TLC

(***************************************************************************)
(* Bounds of the model.                                                    *)
(***************************************************************************)
\* longest work-request chain handed to kfi_post_send
MaxChain == 2
\* operations the fabric holds before it answers only "try again"
MaxInflight == 2
\* largest num_entries handed to kfi_poll_cq
MaxPoll == 2
\* completions the fabric produces in one behaviour
MaxCompletions == 3
\* kfi_key_register calls in one behaviour
MaxRegs == 2
\* QP objects that can be live at once
MaxQps == 2
\* MR objects that can be live at once
MaxMrs == 3
\* kfi_get_dma_mr calls the MR cache may make in one run
MaxMrAllocs == 3
\* kfi_alloc_mr / kfi_get_dma_mr calls of a run without the cache
MaxResMrAllocs == 1
\* capacity of the MR cache
CacheSize == 2
\* kfi_mr_cache_get / put / flush calls of one run
MaxCacheCalls == 5
\* capacity of the MR cache shared by two callers
ConcCacheSize == 1
\* kfi_mr_cache_get / put / flush calls of a run with two callers
MaxConcCalls == 3
\* status translation: codes of either sign up to this magnitude are tried
MaxStatusCode == 520
\* kfi_progress_start calls of one run
MaxStarts == 2
\* completion entries the fabric queues on the default CQs in one run
MaxProgEntries == 2
\* elements of an option list given to kfi_parse_vni_from_options
MaxOpts == 3
\* entries of the short SG lists given to kfi_map_mr_sg
MaxSg == 3
\* kfi_get_devices calls of one run
MaxDiscover == 2
\* elements of a batch given to kfi_batch_send
MaxBatch == 3
\* submissions after which no further kfi_post_send call begins
MaxSubmissions == 4

(***************************************************************************)
(* Program constants.                                                      *)
(***************************************************************************)
KFI_MAX_SGE == 16
\* the batch size of svc_kfi_poll_cq; its definition is outside the files
\* modelled, any value above MaxPoll gives the same runs
KFI_MAX_POLL_ENTRIES == 16
\* size of progress_threads[] (MAX_DEVICES in kfi_progress.c)
MAX_DEVICES == 8
\* entries one kfi_cq_read of the progress worker asks for
ProgBatch == 16
UINT16_MAX == 65535
KFI_ERRNO_OFFSET == 256
KFI_EAGAIN == KFI_ERRNO_OFFSET + 1
KFI_EACCES == KFI_ERRNO_OFFSET + 2
KFI_ECANCELED == KFI_ERRNO_OFFSET + 3
KFI_EINVAL == KFI_ERRNO_OFFSET + 4
KFI_ERRNO_PROV_OFFSET == 512
\* spelled KKFI_ETRUNC in kfi_errno.h
KFI_ETRUNC == KFI_ERRNO_PROV_OFFSET + 1
KFI_EOTHER == KFI_ERRNO_PROV_OFFSET + 3
\* Linux errno values (asm-generic/errno-base.h, errno.h) the code returns
ENOENT == 2
EAGAIN == 11
ENOMEM == 12
EACCES == 13
EBUSY == 16
EEXIST == 17
EINVAL == 22
EOPNOTSUPP == 95

VARIABLES
    \* struct kfi_qp
    qp_state,        \* kqp->state
    auth_key,        \* kqp->auth_key: [present, vni]
    vni_from_mount,  \* kqp->vni_from_mount
    vni_configured,  \* the transport setup has stored a mount VNI
    av_bound,        \* kqp->av created and bound to the endpoint
    ep_enabled,      \* kfi_enable(kqp->ep) has succeeded
    sq_lock,         \* kqp->sq_lock: "free" or the holding thread
    \* the last kfi_modify_qp / kfi_connect_ep call
    mod_ret,         \* its return value
    mod_to,          \* the state it asked for
    \* a kfi_post_send call of each thread
    pc,              \* idle, loop, out_unlock, done
    chain,           \* the chain of work requests handed in
    cur,             \* index of cur_wr in the chain
    ret,             \* ret
    bad,             \* index of *bad_wr in the chain, 0 when not set
    steps,           \* per processed request: the fabric call made, if any
    entry_state,     \* kqp->state when the call entered
    \* the fabric
    inflight,        \* accepted operations not yet completed
    cq,              \* the fabric CQ bound to the QP: entries not yet read
    fabric_order,    \* request ids in the order their completions were queued
    \* kfi_poll_cq, svc_kfi_poll_cq
    wc,              \* the entries of wc[] the last call wrote
    poll_call,       \* the last call: its arguments, what the fabric answered
    poll_ret,        \* its return value
    polled,          \* wr_id of every work completion returned, in order
    \* kfi_key_mapping.c
    next_ib_key,     \* the u32 allocation counter, as <<high 16 bits, low 16 bits>>
    ib_key_tree,     \* the entries linked into the rb tree keyed by ib_key
    kfi_key_hash,    \* the entries linked into the hash, newest first
    ib_key_lock,     \* "free" or the holding thread
    kfi_key_lock,    \* "free" or the holding thread
    kpc,             \* where each thread is in its key-translator call
    kop,             \* that call: its arguments, its entry, its result
    live,            \* pairs a register call returned, not yet handed to unregister
    reg_count,       \* kfi_key_register calls so far
    \* kfi_verbs_compat.c, kfi_memory.c: the objects and their usage counters
    pds,             \* struct kfi_pd: live, usecnt
    cqs,             \* struct kfi_cq: live, usecnt
    qps,             \* struct kfi_qp: live, pd, send_cq, recv_cq
    mrs,             \* struct kfi_mr: live, pd, usecnt, lkey, rkey, native key, cache_entry
    fabric_mrs,      \* native keys of the MRs open in the fabric
    mr_allocs,       \* kfi_alloc_mr / kfi_get_dma_mr calls the run may still make
    res_op,          \* the name of the last call on these objects
    res_ret,         \* its return value
    \* struct kfi_mr_cache
    cache_root,      \* cache->root: the red-black tree of entries
    cache_lru,       \* cache->lru: entries, most recently used first
    centries,        \* struct kfi_mr_cache_entry of each allocated entry
    current_entries, \* cache->current_entries
    max_entries,     \* cache->max_entries
    hits,            \* cache->hits
    misses,          \* cache->misses
    cpc,             \* where each thread is in its cache call
    cop,             \* that call: its arguments, its locals, its result
    cprev,           \* the call each thread made before that one
    held,            \* per MR: references handed out by get and not yet put
    ccalls,          \* cache calls the run may still start
    \* kfi_errno_to_ib_status called on its own
    xl_in,           \* the kfi_err argument of the last call
    xl_out,          \* the status it returned
    \* kfi_progress.c
    progress_threads,     \* progress_threads[]: a driver (pts index) or NULL (0)
    num_progress_threads, \* num_progress_threads
    pts,             \* struct kfi_progress_thread of each allocation, its thread
    pt_allocs,       \* kfi_progress_start calls the run may still make
    default_cq,      \* per device: entries waiting in device->default_cq
    produced,        \* entries the fabric has queued so far
    prog_read,       \* batches the drivers have read, in the order read
    delivered,       \* batches handed to a CQ's notification callback
    prog_fault,      \* what a stop call touched that it must not
    prog_op,         \* the last kfi_progress_* call
    \* kfi_parse_vni_from_options called on its own
    parse_call,      \* the last call: options, whether kstrdup succeeded
    parse_ret,       \* its return value
    vni_out,         \* *vni_out: whether the call wrote it, the value written
    \* kfi_do_send on a request whose SGE names a live MR
    sge_send,        \* the last such call: the MR, kmr, the descriptor passed on
    \* kfi_map_mr_sg on an MR from kfi_alloc_mr
    map_call,        \* the call: the SG list, *sg_offset, what kcalloc and the fabric answer
    map_mr,          \* the MR: kmr->kfi_mr, kmr->iova, kmr->length
    map_regs,        \* the kfi_mr_reg calls made
    map_ret,         \* the return value
    \* the fabric's view of the send queue
    sq_trace,        \* [on, calls]: when on, every submission kfi_post_send made
    \* kfi_batch_send
    batch_call,      \* the call: batch->count, what the fabric answers per element
    batch_sent,      \* the elements the fabric accepted, in order
    batch_ret,       \* the return value
    \* an opcode taken through ib_opcode_to_kfi and the flag chain of kfi_poll_cq
    rt_call,         \* the opcode and the flag bits the fabric adds to the completion
    rt_flags,        \* what ib_opcode_to_kfi returned
    rt_wc,           \* the completion opcode derived
    \* kfi_verbs_compat.c: device discovery
    kfi_device_list, \* the global registry: the name of each entry, in list order
    dev_call,        \* the last kfi_get_devices call: what kfi_getinfo listed, how each entry fared
    dev_ret,         \* *num_devices of that call, -1 when it returned NULL
    dev_calls        \* kfi_get_devices calls left in this run

qpVars == <<qp_state, auth_key, vni_from_mount, vni_configured, av_bound, ep_enabled,
            mod_ret, mod_to>>
postVars == <<sq_lock, pc, chain, cur, ret, bad, steps, entry_state>>
fabricVars == <<inflight, cq, fabric_order>>
pollVars == <<wc, poll_ret, polled, poll_call>>
opsVars == <<qpVars, postVars, fabricVars, pollVars>>
keyVars == <<next_ib_key, ib_key_tree, kfi_key_hash, ib_key_lock, kfi_key_lock,
             kpc, kop, live, reg_count>>
resVars == <<pds, cqs, qps, mrs, fabric_mrs, mr_allocs, res_op, res_ret>>
cacheVars == <<cache_root, cache_lru, centries, current_entries, max_entries,
               hits, misses, cpc, cop, cprev, held, ccalls>>
xlVars == <<xl_in, xl_out>>
progVars == <<progress_threads, num_progress_threads, pts, pt_allocs,
              default_cq, produced, prog_read, delivered, prog_fault, prog_op>>
parseVars == <<parse_call, parse_ret, vni_out>>
mapVars == <<map_call, map_mr, map_regs, map_ret>>
batchVars == <<batch_call, batch_sent, batch_ret>>
\* the components a post leaves alone
rtVars == <<rt_call, rt_flags, rt_wc>>
\* the components added last
devVars == <<kfi_device_list, dev_call, dev_ret, dev_calls>>
lateVars == <<rtVars, devVars>>
extRest == <<xlVars, progVars, parseVars, sge_send, mapVars, batchVars, lateVars>>
extVars == <<extRest, sq_trace>>
coreVars == <<opsVars, keyVars, resVars, cacheVars>>
vars == <<coreVars, extVars>>

Threads == {"t1", "t2"}

(***************************************************************************)
(* Queue pair: kfi_create_qp, kfi_modify_qp, kfi_connect_ep.               *)
(***************************************************************************)
\* enum ib_qp_state
QPStates == {"RESET", "INIT", "RTR", "RTS", "SQD", "SQE", "ERR"}

NoAuthKey == [present |-> FALSE, vni |-> 0]
AuthKey(v) == [present |-> TRUE, vni |-> v]

\* VNIs the transport setup or the provider may hand over
VNIs == {0, 7, 65535}

\* kfi_query_default_vni: the ambient default of the provider, or a failure
DefaultVniAnswers ==
    {[ok |-> TRUE, vni |-> 9], [ok |-> FALSE, vni |-> 0]}

\* kfi_get_auth_key without the kfree / NULL of its failure path
kfi_get_auth_key_keep(alloc_ok, dflt) ==
    IF ~alloc_ok THEN [key |-> NoAuthKey, ret |-> -ENOMEM]
    ELSE IF vni_from_mount # 0
         THEN [key |-> AuthKey(vni_from_mount), ret |-> 0]
    ELSE IF dflt.ok THEN [key |-> AuthKey(dflt.vni), ret |-> 0]
    ELSE [key |-> AuthKey(0), ret |-> -EACCES]

\* kfi_get_auth_key(kqp): the new auth_key and the return value.
\* alloc_ok: kzalloc succeeded; dflt: the answer of kfi_query_default_vni
kfi_get_auth_key(alloc_ok, dflt) ==
    IF ~alloc_ok THEN [key |-> NoAuthKey, ret |-> -ENOMEM]
    ELSE IF vni_from_mount # 0
         THEN [key |-> AuthKey(vni_from_mount), ret |-> 0]
    ELSE IF dflt.ok THEN [key |-> AuthKey(dflt.vni), ret |-> 0]
    ELSE [key |-> NoAuthKey, ret |-> -EACCES]

\* the state after kfi_create_qp
InitQP ==
    /\ qp_state = "RESET"
    /\ auth_key = NoAuthKey
    /\ vni_from_mount = 0
    /\ vni_configured = FALSE
    /\ av_bound = FALSE
    /\ ep_enabled = FALSE
    /\ sq_lock = "free"
    /\ mod_ret = 0
    /\ mod_to = "RESET"

\* the transport setup stores the VNI parsed from the mount options
SetVniFromMount(v) ==
    /\ vni_from_mount' = v
    /\ vni_configured' = TRUE
    /\ UNCHANGED <<qp_state, auth_key, av_bound, ep_enabled,
                   mod_ret, mod_to>>
    /\ UNCHANGED <<postVars, fabricVars, pollVars, keyVars, resVars, cacheVars, extVars>>

\* kfi_setup_av: 0, or the error of kfi_av_open / kfi_av_insert / kfi_ep_bind
SetupAvAnswers == {0, -EINVAL}
\* kfi_enable
EnableAnswers == {0, -KFI_EINVAL}

\* kfi_modify_qp with the state stored before kfi_enable is called
kfi_modify_qp_state_first(new_state, mask_state, mask_av, alloc_ok, dflt, av_ret, en_ret) ==
    /\ mod_to' = new_state
    /\ IF ~mask_state
       THEN /\ mod_ret' = 0
            /\ UNCHANGED <<qp_state, auth_key, av_bound, ep_enabled>>
       ELSE CASE new_state = "INIT" ->
                   LET r == kfi_get_auth_key(alloc_ok, dflt) IN
                   /\ auth_key' = r.key
                   /\ mod_ret' = r.ret
                   /\ qp_state' = IF r.ret # 0 THEN qp_state ELSE "INIT"
                   /\ UNCHANGED <<av_bound, ep_enabled>>
              [] new_state = "RTR" ->
                   /\ mod_ret' = IF mask_av THEN av_ret ELSE 0
                   /\ av_bound' = IF mask_av /\ av_ret = 0 THEN TRUE ELSE av_bound
                   /\ qp_state' = IF mask_av /\ av_ret # 0 THEN qp_state ELSE "RTR"
                   /\ UNCHANGED <<auth_key, ep_enabled>>
              [] new_state = "RTS" ->
                   /\ mod_ret' = en_ret
                   /\ ep_enabled' = IF en_ret = 0 THEN TRUE ELSE ep_enabled
                   /\ qp_state' = "RTS"
                   /\ UNCHANGED <<auth_key, av_bound>>
              [] new_state = "ERR" ->
                   /\ mod_ret' = 0
                   /\ qp_state' = "ERR"
                   /\ UNCHANGED <<auth_key, av_bound, ep_enabled>>
              [] OTHER ->
                   /\ mod_ret' = -EINVAL
                   /\ UNCHANGED <<qp_state, auth_key, av_bound, ep_enabled>>
    /\ UNCHANGED <<vni_from_mount, vni_configured>>
    /\ UNCHANGED <<postVars, fabricVars, pollVars, keyVars, resVars, cacheVars, extVars>>

\* kfi_modify_qp(qp, attr, attr_mask): new_state is attr->qp_state,
\* mask_state is attr_mask & IB_QP_STATE, mask_av is attr_mask & IB_QP_AV
kfi_modify_qp(new_state, mask_state, mask_av, alloc_ok, dflt, av_ret, en_ret) ==
    /\ mod_to' = new_state
    /\ IF ~mask_state
       THEN /\ mod_ret' = 0
            /\ UNCHANGED <<qp_state, auth_key, av_bound, ep_enabled>>
       ELSE CASE new_state = "INIT" ->
                   LET r == kfi_get_auth_key(alloc_ok, dflt) IN
                   /\ auth_key' = r.key
                   /\ mod_ret' = r.ret
                   /\ qp_state' = IF r.ret # 0 THEN qp_state ELSE "INIT"
                   /\ UNCHANGED <<av_bound, ep_enabled>>
              [] new_state = "RTR" ->
                   /\ mod_ret' = IF mask_av THEN av_ret ELSE 0
                   /\ av_bound' = IF mask_av /\ av_ret = 0 THEN TRUE ELSE av_bound
                   /\ qp_state' = IF mask_av /\ av_ret # 0 THEN qp_state ELSE "RTR"
                   /\ UNCHANGED <<auth_key, ep_enabled>>
              [] new_state = "RTS" ->
                   /\ mod_ret' = en_ret
                   /\ ep_enabled' = IF en_ret = 0 THEN TRUE ELSE ep_enabled
                   /\ qp_state' = IF en_ret # 0 THEN qp_state ELSE "RTS"
                   /\ UNCHANGED <<auth_key, av_bound>>
              [] new_state = "ERR" ->
                   /\ mod_ret' = 0
                   /\ qp_state' = "ERR"
                   /\ UNCHANGED <<auth_key, av_bound, ep_enabled>>
              [] OTHER ->
                   /\ mod_ret' = -EINVAL
                   /\ UNCHANGED <<qp_state, auth_key, av_bound, ep_enabled>>
    /\ UNCHANGED <<vni_from_mount, vni_configured>>
    /\ UNCHANGED <<postVars, fabricVars, pollVars, keyVars, resVars, cacheVars, extVars>>

\* the answers of the environment a kfi_modify_qp call consumes: the
\* allocation and the default VNI on the INIT path, kfi_setup_av on the RTR
\* path with IB_QP_AV, kfi_enable on the RTS path, none elsewhere
ModifyInputs(new_state, mask_state, mask_av) ==
    LET none == [alloc_ok |-> TRUE, dflt |-> [ok |-> TRUE, vni |-> 9],
                 av_ret |-> 0, en_ret |-> 0]
    IN
    IF mask_state /\ new_state = "INIT"
    THEN {[none EXCEPT !.alloc_ok = a, !.dflt = d] :
             a \in BOOLEAN, d \in DefaultVniAnswers}
    ELSE IF mask_state /\ new_state = "RTR" /\ mask_av
    THEN {[none EXCEPT !.av_ret = r] : r \in SetupAvAnswers}
    ELSE IF mask_state /\ new_state = "RTS"
    THEN {[none EXCEPT !.en_ret = r] : r \in EnableAnswers}
    ELSE {none}

ModifyQp ==
    \E new_state \in QPStates, mask_state \in BOOLEAN, mask_av \in BOOLEAN :
        \E in \in ModifyInputs(new_state, mask_state, mask_av) :
            kfi_modify_qp(new_state, mask_state, mask_av, in.alloc_ok,
                          in.dflt, in.av_ret, in.en_ret)

\* kfi_connect_ep(kqp, remote_addr): auth key, address vector, enable, RTS
kfi_connect_ep(alloc_ok, dflt, av_ret, en_ret) ==
    LET r == kfi_get_auth_key(alloc_ok, dflt) IN
    /\ mod_to' = "RTS"
    /\ auth_key' = r.key
    /\ IF r.ret # 0
       THEN /\ mod_ret' = r.ret
            /\ UNCHANGED <<qp_state, av_bound, ep_enabled>>
       ELSE IF av_ret # 0
       THEN /\ mod_ret' = av_ret
            /\ UNCHANGED <<qp_state, av_bound, ep_enabled>>
       ELSE IF en_ret # 0
       THEN /\ mod_ret' = en_ret
            /\ av_bound' = TRUE
            /\ UNCHANGED <<qp_state, ep_enabled>>
       ELSE /\ mod_ret' = 0
            /\ av_bound' = TRUE
            /\ ep_enabled' = TRUE
            /\ qp_state' = "RTS"
    /\ UNCHANGED <<vni_from_mount, vni_configured>>
    /\ UNCHANGED <<postVars, fabricVars, pollVars, keyVars, resVars, cacheVars, extVars>>

ConnectEp ==
    \E alloc_ok \in BOOLEAN, dflt \in DefaultVniAnswers,
       av_ret \in SetupAvAnswers, en_ret \in EnableAnswers :
        kfi_connect_ep(alloc_ok, dflt, av_ret, en_ret)

(***************************************************************************)
(* Operation translator: kfi_post_send and its helpers.                    *)
(***************************************************************************)
\* a work request: struct ib_send_wr (struct ib_rdma_wr for the RDMA opcodes)
WR(opcode, num_sge, wr_id, remote_addr, rkey) ==
    [opcode |-> opcode, num_sge |-> num_sge, wr_id |-> wr_id,
     remote_addr |-> remote_addr, rkey |-> rkey]

\* a cast that keeps only the low 16 bits
WrIdTruncated(wr_id) == wr_id % (2^16)

\* (void *)wr->wr_id: the kernel this module builds for is LP64, a pointer
\* holds every u64, so the cast keeps the value
WrIdToContext(wr_id) == wr_id

\* a call of the fabric: kfi_send, kfi_sendv, kfi_write, kfi_writev,
\* kfi_read, kfi_readv with its iov count, its context and, for RMA, the
\* remote address and key; req remembers the request it was made for
FabricOp(op, wr, ctx, rma) ==
    [op |-> op, count |-> wr.num_sge, ctx |-> ctx,
     remote_addr |-> IF rma THEN wr.remote_addr ELSE 0,
     rkey |-> IF rma THEN wr.rkey ELSE 0,
     req |-> wr.wr_id]

Reject(code) == [kind |-> "reject", ret |-> code]
Call(fop) == [kind |-> "call", fop |-> fop]

\* kfi_do_send without its bound on num_sge
kfi_do_send_unchecked(wr) ==
    IF wr.num_sge > 1
    THEN Call(FabricOp("kfi_sendv", wr, WrIdToContext(wr.wr_id), FALSE))
    ELSE Call(FabricOp("kfi_send", wr, WrIdToContext(wr.wr_id), FALSE))

\* kfi_do_send up to the fabric call
kfi_do_send(wr) ==
    IF wr.num_sge > 1
    THEN IF wr.num_sge > KFI_MAX_SGE
         THEN Reject(-EINVAL)
         ELSE Call(FabricOp("kfi_sendv", wr, WrIdToContext(wr.wr_id), FALSE))
    ELSE Call(FabricOp("kfi_send", wr, WrIdToContext(wr.wr_id), FALSE))

\* kfi_do_rdma_write up to the fabric call
kfi_do_rdma_write(wr) ==
    IF wr.num_sge > 1
    THEN IF wr.num_sge > KFI_MAX_SGE
         THEN Reject(-EINVAL)
         ELSE Call(FabricOp("kfi_writev", wr, WrIdToContext(wr.wr_id), TRUE))
    ELSE Call(FabricOp("kfi_write", wr, WrIdToContext(wr.wr_id), TRUE))

\* kfi_do_rdma_read up to the fabric call
kfi_do_rdma_read(wr) ==
    IF wr.num_sge > 1
    THEN IF wr.num_sge > KFI_MAX_SGE
         THEN Reject(-EINVAL)
         ELSE Call(FabricOp("kfi_readv", wr, WrIdToContext(wr.wr_id), TRUE))
    ELSE Call(FabricOp("kfi_read", wr, WrIdToContext(wr.wr_id), TRUE))

\* kfi_do_send_with_inv: a plain send
kfi_do_send_with_inv(wr) == kfi_do_send(wr)

\* the opcodes the switch of kfi_post_send has a case for
HandledOpcodes == {"IB_WR_SEND", "IB_WR_RDMA_WRITE", "IB_WR_RDMA_WRITE_WITH_IMM",
                   "IB_WR_RDMA_READ", "IB_WR_SEND_WITH_INV"}

\* the switch of kfi_post_send on cur_wr->opcode
Dispatch(wr) ==
    CASE wr.opcode = "IB_WR_SEND" -> kfi_do_send(wr)
      [] wr.opcode \in {"IB_WR_RDMA_WRITE", "IB_WR_RDMA_WRITE_WITH_IMM"} ->
             kfi_do_rdma_write(wr)
      [] wr.opcode = "IB_WR_RDMA_READ" -> kfi_do_rdma_read(wr)
      [] wr.opcode = "IB_WR_SEND_WITH_INV" -> kfi_do_send_with_inv(wr)
      [] OTHER -> Reject(-EOPNOTSUPP)

\* a tail that treats "try again" as success
DoRetSwallow(r) ==
    IF r < 0 /\ r # -KFI_EAGAIN THEN r ELSE 0

\* the tail of kfi_do_send / kfi_do_rdma_write / kfi_do_rdma_read: the
\* return value for the fabric's answer r
DoRet(r) ==
    IF r < 0 /\ r # -KFI_EAGAIN THEN r
    ELSE IF r = -KFI_EAGAIN THEN -EAGAIN ELSE 0

\* what the fabric may answer to a submission: accepted (when the endpoint
\* is enabled and the fabric has room), try again, or a hard error
FabricAnswers(enabled, room) ==
    (IF enabled /\ room THEN {0} ELSE {}) \cup {-KFI_EAGAIN, -KFI_EINVAL}

InitPost ==
    /\ pc = [t \in Threads |-> "idle"]
    /\ chain = [t \in Threads |-> <<>>]
    /\ cur = [t \in Threads |-> 0]
    /\ ret = [t \in Threads |-> 0]
    /\ bad = [t \in Threads |-> 0]
    /\ steps = [t \in Threads |-> <<>>]
    /\ entry_state = [t \in Threads |-> "RESET"]

\* kfi_post_send entry without taking sq_lock
PostBeginNoLock(t, c) ==
    /\ pc[t] = "idle"
    /\ sq_lock' = t
    /\ chain' = [chain EXCEPT ![t] = c]
    /\ cur' = [cur EXCEPT ![t] = 1]
    /\ ret' = [ret EXCEPT ![t] = 0]
    /\ bad' = [bad EXCEPT ![t] = 0]
    /\ steps' = [steps EXCEPT ![t] = <<>>]
    /\ entry_state' = [entry_state EXCEPT ![t] = qp_state]
    /\ pc' = [pc EXCEPT ![t] = IF c = <<>> THEN "out_unlock" ELSE "loop"]
    /\ UNCHANGED <<qpVars, fabricVars, pollVars, keyVars, resVars, cacheVars, extVars>>

\* kfi_post_send entry: the QP has an endpoint, take sq_lock, cur_wr = wr
PostBegin(t, c) ==
    /\ pc[t] = "idle"
    /\ sq_lock = "free"
    /\ sq_lock' = t
    /\ chain' = [chain EXCEPT ![t] = c]
    /\ cur' = [cur EXCEPT ![t] = 1]
    /\ ret' = [ret EXCEPT ![t] = 0]
    /\ bad' = [bad EXCEPT ![t] = 0]
    /\ steps' = [steps EXCEPT ![t] = <<>>]
    /\ entry_state' = [entry_state EXCEPT ![t] = qp_state]
    /\ pc' = [pc EXCEPT ![t] = IF c = <<>> THEN "out_unlock" ELSE "loop"]
    /\ UNCHANGED <<qpVars, fabricVars, pollVars, keyVars, resVars, cacheVars, extVars>>

\* one iteration of the for loop over the chain; track: the fabric model
\* keeps the accepted operation until it completes
PostStep(t, track) ==
    /\ pc[t] = "loop"
    /\ LET wr == chain[t][cur[t]]
           plan == Dispatch(wr)
       IN
       IF plan.kind = "reject"
       THEN /\ ret' = [ret EXCEPT ![t] = plan.ret]
            /\ bad' = [bad EXCEPT ![t] = cur[t]]
            /\ steps' = [steps EXCEPT ![t] =
                   Append(@, [idx |-> cur[t], called |-> FALSE,
                              fop |-> FabricOp("none", wr, 0, FALSE),
                              res |-> 0])]
            /\ pc' = [pc EXCEPT ![t] = "out_unlock"]
            /\ UNCHANGED <<cur, inflight, sq_trace>>
       ELSE \E r \in FabricAnswers(ep_enabled,
                    ~track \/ Len(inflight) + Len(cq) < MaxInflight) :
            /\ steps' = [steps EXCEPT ![t] =
                   Append(@, [idx |-> cur[t], called |-> TRUE,
                              fop |-> plan.fop, res |-> r])]
            /\ inflight' = IF track /\ r = 0 THEN Append(inflight, plan.fop)
                           ELSE inflight
            /\ sq_trace' = IF sq_trace.on
                           THEN [sq_trace EXCEPT !.calls =
                                    Append(@, [t |-> t, idx |-> cur[t]])]
                           ELSE sq_trace
            /\ ret' = [ret EXCEPT ![t] = DoRet(r)]
            /\ IF DoRet(r) # 0
               THEN /\ bad' = [bad EXCEPT ![t] = cur[t]]
                    /\ pc' = [pc EXCEPT ![t] = "out_unlock"]
                    /\ UNCHANGED cur
               ELSE /\ cur' = [cur EXCEPT ![t] = cur[t] + 1]
                    /\ pc' = [pc EXCEPT ![t] =
                           IF cur[t] + 1 > Len(chain[t]) THEN "out_unlock"
                           ELSE "loop"]
                    /\ UNCHANGED bad
    /\ UNCHANGED <<sq_lock, chain, entry_state, cq, fabric_order>>
    /\ UNCHANGED <<qpVars, pollVars, keyVars, resVars, cacheVars, extRest>>

\* out_unlock: release sq_lock and return ret
PostUnlock(t) ==
    /\ pc[t] = "out_unlock"
    /\ sq_lock' = "free"
    /\ pc' = [pc EXCEPT ![t] = "done"]
    /\ UNCHANGED <<chain, cur, ret, bad, steps, entry_state>>
    /\ UNCHANGED <<qpVars, fabricVars, pollVars, keyVars, resVars, cacheVars, extVars>>

\* the caller has read the result
PostReturn(t) ==
    /\ pc[t] = "done"
    /\ pc' = [pc EXCEPT ![t] = "idle"]
    /\ chain' = [chain EXCEPT ![t] = <<>>]
    /\ cur' = [cur EXCEPT ![t] = 0]
    /\ ret' = [ret EXCEPT ![t] = 0]
    /\ bad' = [bad EXCEPT ![t] = 0]
    /\ steps' = [steps EXCEPT ![t] = <<>>]
    /\ entry_state' = [entry_state EXCEPT ![t] = "RESET"]
    /\ UNCHANGED sq_lock
    /\ UNCHANGED <<qpVars, fabricVars, pollVars, keyVars, resVars, cacheVars, extVars>>

(***************************************************************************)
(* The fabric: completion of accepted operations onto the CQ.              *)
(***************************************************************************)
\* the completion flags the fabric reports for an operation
OpFlags(op) ==
    CASE op \in {"kfi_send", "kfi_sendv"} -> {"KFI_MSG", "KFI_SEND"}
      [] op \in {"kfi_write", "kfi_writev"} -> {"KFI_RMA", "KFI_WRITE"}
      [] op \in {"kfi_read", "kfi_readv"} -> {"KFI_RMA", "KFI_READ"}
      [] OTHER -> {}

\* error codes an error entry may carry (err 0: a successful completion)
CqErrors == {-KFI_ECANCELED}

\* struct kfi_cq_data_entry / struct kfi_cq_err_entry; req remembers the
\* request the entry completes
CqEntry(fop, err) ==
    [op_context |-> fop.ctx, flags |-> OpFlags(fop.op), len |-> fop.count,
     err |-> err, prov_errno |-> IF err = 0 THEN 0 ELSE 5, req |-> fop.req]

RemoveAt(s, i) == SubSeq(s, 1, i - 1) \o SubSeq(s, i + 1, Len(s))

InitFabric ==
    /\ inflight = <<>>
    /\ cq = <<>>
    /\ fabric_order = <<>>

\* the fabric completes one accepted operation, in any order, with success
\* or with an error entry
FabricComplete ==
    /\ Len(fabric_order) < MaxCompletions
    /\ \E i \in 1..Len(inflight), err \in {0} \cup CqErrors :
        /\ cq' = Append(cq, CqEntry(inflight[i], err))
        /\ fabric_order' = Append(fabric_order, inflight[i].req)
        /\ inflight' = RemoveAt(inflight, i)
    /\ UNCHANGED <<qpVars, postVars, pollVars, keyVars, resVars, cacheVars, extVars>>

(***************************************************************************)
(* Completion translator: kfi_poll_cq.                                     *)
(***************************************************************************)
\* the switch taken on kfi_err itself
kfi_errno_to_ib_status_unnegated(kfi_err) ==
    CASE kfi_err = 0 -> "IB_WC_SUCCESS"
      [] kfi_err = KFI_ETRUNC -> "IB_WC_LOC_LEN_ERR"
      [] kfi_err = KFI_EACCES -> "IB_WC_LOC_PROT_ERR"
      [] kfi_err = KFI_ECANCELED -> "IB_WC_WR_FLUSH_ERR"
      [] OTHER -> "IB_WC_GENERAL_ERR"

\* kfi_errno_to_ib_status
kfi_errno_to_ib_status(kfi_err) ==
    CASE -kfi_err = 0 -> "IB_WC_SUCCESS"
      [] -kfi_err = KFI_ETRUNC -> "IB_WC_LOC_LEN_ERR"
      [] -kfi_err = KFI_EACCES -> "IB_WC_LOC_PROT_ERR"
      [] -kfi_err = KFI_ECANCELED -> "IB_WC_WR_FLUSH_ERR"
      [] OTHER -> "IB_WC_GENERAL_ERR"

\* enum ib_wc_status values the translation can return
WcStatuses ==
    {"IB_WC_SUCCESS", "IB_WC_LOC_LEN_ERR", "IB_WC_LOC_PROT_ERR",
     "IB_WC_WR_FLUSH_ERR", "IB_WC_GENERAL_ERR"}

\* the if/else chain of kfi_poll_cq over cq_entry[i].flags
FlagsToWcOpcode(flags) ==
    IF "KFI_SEND" \in flags THEN "IB_WC_SEND"
    ELSE IF "KFI_RECV" \in flags THEN "IB_WC_RECV"
    ELSE IF "KFI_READ" \in flags THEN "IB_WC_RDMA_READ"
    ELSE IF "KFI_WRITE" \in flags THEN "IB_WC_RDMA_WRITE"
    ELSE "IB_WC_SEND"

\* (u64)op_context
ContextToWrId(ctx) == ctx

\* the loop body of kfi_poll_cq: wc[i] from cq_entry[i]; vendor_err is not
\* written on this path
WcOfEntry(e) ==
    [wr_id |-> ContextToWrId(e.op_context), status |-> "IB_WC_SUCCESS",
     byte_len |-> e.len, opcode |-> FlagsToWcOpcode(e.flags),
     vendor_err |-> 0]

\* the error path of kfi_poll_cq with the vendor error left out
WcOfErrEntryNoVendor(e) ==
    [wr_id |-> ContextToWrId(e.op_context),
     status |-> kfi_errno_to_ib_status(e.err),
     byte_len |-> 0, opcode |-> "unset", vendor_err |-> 0]

\* the error path of kfi_poll_cq: wc[0] from err_entry; byte_len and opcode
\* are not written on this path
WcOfErrEntry(e) ==
    [wr_id |-> ContextToWrId(e.op_context),
     status |-> kfi_errno_to_ib_status(e.err),
     byte_len |-> 0, opcode |-> "unset", vendor_err |-> e.prov_errno]

\* the wc[] entries kfi_poll_cq writes for the count entries kfi_cq_read
\* returned
TranslateEntries(entries) ==
    [i \in 1..Len(entries) |-> WcOfEntry(entries[i])]

\* number of successful entries at the head of the CQ
RECURSIVE LeadingOk(_)
LeadingOk(q) ==
    IF q = <<>> \/ Head(q).err # 0 THEN 0 ELSE 1 + LeadingOk(Tail(q))

Min(a, b) == IF a < b THEN a ELSE b

\* codes other than -KFI_EAGAIN that kfi_cq_read returns: an error entry is
\* waiting, or the read itself failed
CqReadErrors == {-KFI_EOTHER}

\* what kfi_cq_read(cq, buf, count) may return: an error, -KFI_EAGAIN on an
\* empty queue, or the number of entries copied from the head of the queue
CqReadOutcomes(count) ==
    CqReadErrors \cup
        (IF cq = <<>> THEN {-KFI_EAGAIN}
         ELSE IF Head(cq).err # 0 THEN {}
         ELSE 1..Min(count, LeadingOk(cq)))

\* no error entry
NoErrEntry ==
    [op_context |-> 0, flags |-> {}, len |-> 0, err |-> 0, prov_errno |-> 0,
     req |-> 0]

\* kfi_cq_readerr(cq, &err_entry, 0): 1 and the error entry at the head of
\* the queue, -KFI_EAGAIN when there is none
kfi_cq_readerr ==
    IF cq # <<>> /\ Head(cq).err # 0
    THEN [ret |-> 1, err_entry |-> Head(cq)]
    ELSE [ret |-> -KFI_EAGAIN, err_entry |-> NoErrEntry]

\* no poll call made yet
NoPollCall ==
    [fn |-> "none", num_entries |-> 0, read_ret |-> 0, readerr_ret |-> 0,
     err_entry |-> NoErrEntry]

InitPoll ==
    /\ wc = <<>>
    /\ poll_ret = 0
    /\ polled = <<>>
    /\ poll_call = NoPollCall

\* kfi_poll_cq(cq, num_entries, wc), kfi_cq_read returning read_ret
kfi_poll_cq(num_entries, read_ret) ==
    /\ read_ret \in CqReadOutcomes(num_entries)
    /\ IF read_ret < 0
       THEN IF read_ret = -KFI_EAGAIN
            THEN /\ poll_ret' = 0
                 /\ wc' = <<>>
                 /\ poll_call' = [fn |-> "kfi_poll_cq", num_entries |-> num_entries,
                                  read_ret |-> read_ret, readerr_ret |-> 0,
                                  err_entry |-> NoErrEntry]
                 /\ UNCHANGED <<cq, polled>>
            ELSE LET e == kfi_cq_readerr IN
                 /\ poll_call' = [fn |-> "kfi_poll_cq", num_entries |-> num_entries,
                                  read_ret |-> read_ret, readerr_ret |-> e.ret,
                                  err_entry |-> e.err_entry]
                 /\ IF e.ret = 1
                    THEN /\ poll_ret' = 1
                         /\ wc' = <<WcOfErrEntry(e.err_entry)>>
                         /\ cq' = Tail(cq)
                         /\ polled' = Append(polled, WcOfErrEntry(e.err_entry).wr_id)
                    ELSE /\ poll_ret' = 0
                         /\ wc' = <<>>
                         /\ UNCHANGED <<cq, polled>>
       ELSE \* kfi_cq_read returned count entries
            LET out == TranslateEntries(SubSeq(cq, 1, read_ret)) IN
            /\ poll_ret' = read_ret
            /\ wc' = out
            /\ cq' = SubSeq(cq, read_ret + 1, Len(cq))
            /\ polled' = polled \o [i \in 1..read_ret |-> out[i].wr_id]
            /\ poll_call' = [fn |-> "kfi_poll_cq", num_entries |-> num_entries,
                             read_ret |-> read_ret, readerr_ret |-> 0,
                             err_entry |-> NoErrEntry]
    /\ UNCHANGED <<inflight, fabric_order>>
    /\ UNCHANGED <<qpVars, postVars, keyVars, resVars, cacheVars, extVars>>

PollCq == \E n \in 1..MaxPoll : \E r \in CqReadOutcomes(n) : kfi_poll_cq(n, r)

\* the if/else chain of svc_kfi_poll_cq over cq_entry[i].flags: no default
SvcFlagsToWcOpcode(flags) ==
    IF "KFI_SEND" \in flags THEN "IB_WC_SEND"
    ELSE IF "KFI_RECV" \in flags THEN "IB_WC_RECV"
    ELSE IF "KFI_READ" \in flags THEN "IB_WC_RDMA_READ"
    ELSE IF "KFI_WRITE" \in flags THEN "IB_WC_RDMA_WRITE"
    ELSE "unset"

\* the loop body of svc_kfi_poll_cq
SvcWcOfEntry(e) ==
    [wr_id |-> ContextToWrId(e.op_context), status |-> "IB_WC_SUCCESS",
     byte_len |-> e.len, opcode |-> SvcFlagsToWcOpcode(e.flags),
     vendor_err |-> 0]

\* svc_kfi_poll_cq(kqp, wc, num_entries) on the QP's send CQ, kfi_cq_read
\* returning read_ret; args_ok: kqp, kqp->send_cq and wc are not NULL
svc_kfi_poll_cq(args_ok, num_entries, read_ret) ==
    LET poll_count == Min(num_entries, KFI_MAX_POLL_ENTRIES)
        call == [fn |-> "svc_kfi_poll_cq", num_entries |-> num_entries,
                 read_ret |-> read_ret, readerr_ret |-> 0,
                 err_entry |-> NoErrEntry]
    IN
    /\ IF ~args_ok \/ num_entries <= 0
       THEN /\ read_ret = 0
            /\ poll_ret' = -EINVAL
            /\ wc' = <<>>
            /\ poll_call' = call
            /\ UNCHANGED <<cq, polled>>
       ELSE /\ read_ret \in CqReadOutcomes(poll_count)
            /\ poll_call' = call
            /\ IF read_ret < 0
               THEN /\ poll_ret' = (IF read_ret = -KFI_EAGAIN THEN 0 ELSE read_ret)
                    /\ wc' = <<>>
                    /\ UNCHANGED <<cq, polled>>
               ELSE LET out == [i \in 1..read_ret |-> SvcWcOfEntry(cq[i])] IN
                    /\ poll_ret' = read_ret
                    /\ wc' = out
                    /\ cq' = SubSeq(cq, read_ret + 1, Len(cq))
                    /\ polled' = polled \o [i \in 1..read_ret |-> out[i].wr_id]
    /\ UNCHANGED <<inflight, fabric_order>>
    /\ UNCHANGED <<qpVars, postVars, keyVars, resVars, cacheVars, extVars>>

SvcPollCq ==
    \E ok \in BOOLEAN, n \in 0..MaxPoll :
        \E r \in {0} \cup CqReadOutcomes(Min(n, KFI_MAX_POLL_ENTRIES)) :
            svc_kfi_poll_cq(ok, n, r)

(***************************************************************************)
(* Key translator: kfi_key_mapping.c.                                      *)
(***************************************************************************)
\* a u32 is kept as <<high half, low half>>, each half below 2^16
Half == 2^16
U32(hi, lo) == <<hi, lo>>
\* unsigned comparison
U32Less(a, b) == a[1] < b[1] \/ (a[1] = b[1] /\ a[2] < b[2])
\* atomic_inc_return on the counter, read as a u32: wraps at 2^32
Inc32(a) ==
    IF a[2] = Half - 1 THEN U32((a[1] + 1) % Half, 0) ELSE U32(a[1], a[2] + 1)

\* ATOMIC_INIT(0x10000)
FirstIbKey == U32(1, 0)

\* native (64-bit) keys the fabric hands out
KfiKeys == {101, 102}

Entry(ib_key, kfi_key) == [ib_key |-> ib_key, kfi_key |-> kfi_key]
NoEntry == Entry(U32(0, 0), 0)
NotFound == [ret |-> -ENOENT, out |-> 0]

\* the walk of the rb tree for ib_key: the entry found, or none
TreeFind(ib_key) == {e \in ib_key_tree : e.ib_key = ib_key}

\* rb_first: the entry with the smallest ib_key
TreeFirst ==
    CHOOSE e \in ib_key_tree : \A f \in ib_key_tree : ~U32Less(f.ib_key, e.ib_key)

\* hlist_del of one entry
RECURSIVE HashDel(_, _)
HashDel(h, e) ==
    IF h = <<>> THEN <<>>
    ELSE IF Head(h) = e THEN Tail(h)
    ELSE <<Head(h)>> \o HashDel(Tail(h), e)

\* hash_for_each_possible: the first entry of the bucket with this kfi_key
RECURSIVE HashFind(_, _)
HashFind(h, kfi_key) ==
    IF h = <<>> THEN <<>>
    ELSE IF Head(h).kfi_key = kfi_key THEN <<Head(h)>>
    ELSE HashFind(Tail(h), kfi_key)

\* what kfi_key_lookup_ib(ib_key) returns on the tree as it is
kfi_key_lookup_ib(ib_key) ==
    IF TreeFind(ib_key) = {} THEN NotFound
    ELSE [ret |-> 0, out |-> (CHOOSE e \in TreeFind(ib_key) : TRUE).kfi_key]

\* what kfi_key_lookup_kfi(kfi_key) returns on the hash as it is
kfi_key_lookup_kfi(kfi_key) ==
    IF HashFind(kfi_key_hash, kfi_key) = <<>> THEN [ret |-> -ENOENT, out |-> U32(0, 0)]
    ELSE [ret |-> 0, out |-> HashFind(kfi_key_hash, kfi_key)[1].ib_key]

IdleOp == [op |-> "none", kfi_key |-> 0, ib_key |-> U32(0, 0),
           entry |-> NoEntry, found |-> FALSE, ret |-> 0]

KeyIdle ==
    /\ ib_key_lock = "free"
    /\ kfi_key_lock = "free"
    /\ kpc = [t \in Threads |-> "idle"]
    /\ kop = [t \in Threads |-> IdleOp]
    /\ reg_count = 0

\* after kfi_key_mapping_init
InitKeyFresh ==
    /\ next_ib_key = FirstIbKey
    /\ ib_key_tree = {}
    /\ kfi_key_hash = <<>>
    /\ live = {}
    /\ KeyIdle

\* the states the key translator is started from: fresh; after 2^32 - 0x10002
\* register/unregister pairs (counter 0xFFFFFFFE, nothing registered); after
\* one register that is still live and 2^32 - 1 register/unregister pairs
\* (the counter is back at 0x10000, 0x10001 is still registered)
InitKey ==
    /\ \/ /\ next_ib_key = FirstIbKey
          /\ ib_key_tree = {}
          /\ kfi_key_hash = <<>>
          /\ live = {}
       \/ /\ next_ib_key = U32(Half - 1, Half - 2)
          /\ ib_key_tree = {}
          /\ kfi_key_hash = <<>>
          /\ live = {}
       \/ /\ next_ib_key = FirstIbKey
          /\ ib_key_tree = {Entry(U32(1, 1), 101)}
          /\ kfi_key_hash = <<Entry(U32(1, 1), 101)>>
          /\ live = {Entry(U32(1, 1), 101)}
    /\ KeyIdle

\* kfi_key_register(kfi_key, &ib_key): kzalloc, atomic_inc_return, fill entry
KeyRegBegin(t, kfi_key, alloc_ok) ==
    /\ kpc[t] = "idle"
    /\ reg_count < MaxRegs
    /\ reg_count' = reg_count + 1
    /\ IF ~alloc_ok
       THEN /\ kop' = [kop EXCEPT ![t] =
                  [IdleOp EXCEPT !.op = "register", !.kfi_key = kfi_key,
                                 !.ret = -ENOMEM]]
            /\ kpc' = [kpc EXCEPT ![t] = "ret"]
            /\ UNCHANGED next_ib_key
       ELSE /\ next_ib_key' = Inc32(next_ib_key)
            /\ kop' = [kop EXCEPT ![t] =
                  [IdleOp EXCEPT !.op = "register", !.kfi_key = kfi_key,
                                 !.ib_key = Inc32(next_ib_key),
                                 !.entry = Entry(Inc32(next_ib_key), kfi_key)]]
            /\ kpc' = [kpc EXCEPT ![t] = "reg_tree"]
    /\ UNCHANGED <<ib_key_tree, kfi_key_hash, ib_key_lock, kfi_key_lock, live>>
    /\ UNCHANGED <<opsVars, resVars, cacheVars, extVars>>

\* the critical section under ib_key_lock: insert, or -EEXIST and kfree
KeyRegTree(t) ==
    /\ kpc[t] = "reg_tree"
    /\ ib_key_lock = "free"
    /\ IF TreeFind(kop[t].ib_key) # {}
       THEN /\ kop' = [kop EXCEPT ![t].ret = -EEXIST]
            /\ kpc' = [kpc EXCEPT ![t] = "ret"]
            /\ UNCHANGED ib_key_tree
       ELSE /\ ib_key_tree' = ib_key_tree \cup {kop[t].entry}
            /\ kpc' = [kpc EXCEPT ![t] = "reg_hash"]
            /\ UNCHANGED kop
    /\ UNCHANGED <<next_ib_key, kfi_key_hash, ib_key_lock, kfi_key_lock, live, reg_count>>
    /\ UNCHANGED <<opsVars, resVars, cacheVars, extVars>>

\* the critical section under kfi_key_lock: hash_add, then *ib_key_out
KeyRegHash(t) ==
    /\ kpc[t] = "reg_hash"
    /\ kfi_key_lock = "free"
    /\ kfi_key_hash' = <<kop[t].entry>> \o kfi_key_hash
    /\ kop' = [kop EXCEPT ![t].ret = 0]
    /\ kpc' = [kpc EXCEPT ![t] = "ret"]
    /\ UNCHANGED <<next_ib_key, ib_key_tree, ib_key_lock, kfi_key_lock, live, reg_count>>
    /\ UNCHANGED <<opsVars, resVars, cacheVars, extVars>>

\* 32-bit keys of register calls that have not yet handed their key out
PendingIbKeys ==
    {kop[u].ib_key : u \in {v \in Threads : kpc[v] \in {"reg_tree", "reg_hash"}}}

\* kfi_key_unregister(ib_key): the critical section under ib_key_lock.  A
\* caller holds a key only once a register call has written it out
KeyUnregTree(t, ib_key) ==
    /\ kpc[t] = "idle"
    /\ ib_key \in {p.ib_key : p \in live} \/ ib_key \notin PendingIbKeys
    /\ ib_key_lock = "free"
    /\ live' = {p \in live : p.ib_key # ib_key}
    /\ IF TreeFind(ib_key) = {}
       THEN /\ kop' = [kop EXCEPT ![t] =
                  [IdleOp EXCEPT !.op = "unregister", !.ib_key = ib_key]]
            /\ kpc' = [kpc EXCEPT ![t] = "ret"]
            /\ UNCHANGED ib_key_tree
       ELSE LET e == CHOOSE x \in TreeFind(ib_key) : TRUE IN
            /\ ib_key_tree' = ib_key_tree \ {e}
            /\ kop' = [kop EXCEPT ![t] =
                  [IdleOp EXCEPT !.op = "unregister", !.ib_key = ib_key,
                                 !.kfi_key = e.kfi_key, !.entry = e,
                                 !.found = TRUE]]
            /\ kpc' = [kpc EXCEPT ![t] = "unreg_hash"]
    /\ UNCHANGED <<next_ib_key, kfi_key_hash, ib_key_lock, kfi_key_lock, reg_count>>
    /\ UNCHANGED <<opsVars, resVars, cacheVars, extVars>>

\* the critical section under kfi_key_lock: hash_del, then kfree
KeyUnregHash(t) ==
    /\ kpc[t] = "unreg_hash"
    /\ kfi_key_lock = "free"
    /\ kfi_key_hash' = HashDel(kfi_key_hash, kop[t].entry)
    /\ kpc' = [kpc EXCEPT ![t] = "ret"]
    /\ UNCHANGED <<next_ib_key, ib_key_tree, ib_key_lock, kfi_key_lock,
                   kop, live, reg_count>>
    /\ UNCHANGED <<opsVars, resVars, cacheVars, extVars>>

\* the call returns to its caller
KeyReturn(t) ==
    /\ kpc[t] = "ret"
    /\ kpc' = [kpc EXCEPT ![t] = "idle"]
    /\ kop' = [kop EXCEPT ![t] = IdleOp]
    /\ UNCHANGED <<next_ib_key, ib_key_tree, kfi_key_hash, ib_key_lock,
                   kfi_key_lock, live, reg_count>>
    /\ UNCHANGED <<opsVars, resVars, cacheVars, extVars>>

\* a kfi_key_lookup_ib call: one critical section under ib_key_lock
KeyLookupIb(t, ib_key) ==
    /\ kpc[t] = "idle"
    /\ ib_key_lock = "free"
    /\ kop' = [kop EXCEPT ![t] =
          [IdleOp EXCEPT !.op = "lookup_ib", !.ib_key = ib_key,
                         !.kfi_key = kfi_key_lookup_ib(ib_key).out,
                         !.ret = kfi_key_lookup_ib(ib_key).ret]]
    /\ kpc' = [kpc EXCEPT ![t] = "ret"]
    /\ UNCHANGED <<next_ib_key, ib_key_tree, kfi_key_hash, ib_key_lock,
                   kfi_key_lock, live, reg_count>>
    /\ UNCHANGED <<opsVars, resVars, cacheVars, extVars>>

\* the entries linked into the hash that have been freed: kfi_key_register
\* links its entry in a second critical section (kfi_key_mapping.c:88-90),
\* and a kfi_key_mapping_cleanup that ran in between has erased and freed
\* it (lines 199-209).  An entry that left the tree and is still in the hash
\* is otherwise held by the unregister or cleanup call that is removing it
FreedInHash ==
    {i \in 1..Len(kfi_key_hash) :
        /\ kfi_key_hash[i] \notin ib_key_tree
        /\ \A u \in Threads :
              ~(/\ kpc[u] \in {"unreg_hash", "cl_hash_lock", "cl_hash_del"}
                /\ kop[u].entry = kfi_key_hash[i])}

\* the nodes hash_for_each_possible reads for kfi_key: up to the first match
RECURSIVE HashVisited(_, _, _)
HashVisited(h, i, kfi_key) ==
    IF i > Len(h) THEN {}
    ELSE IF h[i].kfi_key = kfi_key THEN {i}
    ELSE {i} \cup HashVisited(h, i + 1, kfi_key)

\* what reading a freed node may do: the memory still holds the entry and
\* the walk goes on as if it were live, or it has been reused and the walk
\* follows a wild pointer and faults with kfi_key_lock held
FreedReadOutcomes == {"as_live", "fault"}

\* a kfi_key_lookup_kfi call: one critical section under kfi_key_lock
KeyLookupKfi(t, kfi_key) ==
    /\ kpc[t] = "idle"
    /\ kfi_key_lock = "free"
    /\ \E outcome \in IF HashVisited(kfi_key_hash, 1, kfi_key) \cap FreedInHash = {}
                      THEN {"as_live"} ELSE FreedReadOutcomes :
          IF outcome = "fault"
          THEN /\ kop' = [kop EXCEPT ![t] =
                     [IdleOp EXCEPT !.op = "lookup_kfi", !.kfi_key = kfi_key]]
               /\ kpc' = [kpc EXCEPT ![t] = "fault"]
               /\ kfi_key_lock' = t
          ELSE /\ kop' = [kop EXCEPT ![t] =
                     [IdleOp EXCEPT !.op = "lookup_kfi", !.kfi_key = kfi_key,
                                    !.ib_key = kfi_key_lookup_kfi(kfi_key).out,
                                    !.ret = kfi_key_lookup_kfi(kfi_key).ret]]
               /\ kpc' = [kpc EXCEPT ![t] = "ret"]
               /\ UNCHANGED kfi_key_lock
    /\ UNCHANGED <<next_ib_key, ib_key_tree, kfi_key_hash, ib_key_lock,
                   live, reg_count>>
    /\ UNCHANGED <<opsVars, resVars, cacheVars, extVars>>

\* kfi_key_mapping_cleanup: take ib_key_lock for the whole walk.  The code
\* does not wait for calls that are between their two critical sections
KeyCleanupLock(t) ==
    /\ kpc[t] = "idle"
    /\ ib_key_lock = "free"
    /\ ib_key_lock' = t
    /\ kpc' = [kpc EXCEPT ![t] = "cl_loop"]
    /\ kop' = [kop EXCEPT ![t] = [IdleOp EXCEPT !.op = "cleanup"]]
    /\ UNCHANGED <<next_ib_key, ib_key_tree, kfi_key_hash, kfi_key_lock, live, reg_count>>
    /\ UNCHANGED <<opsVars, resVars, cacheVars, extVars>>

\* rb_first and rb_erase, or the end of the walk and the unlock
KeyCleanupErase(t) ==
    /\ kpc[t] = "cl_loop"
    /\ IF ib_key_tree = {}
       THEN /\ ib_key_lock' = "free"
            /\ kpc' = [kpc EXCEPT ![t] = "ret"]
            /\ UNCHANGED <<ib_key_tree, kop>>
       ELSE /\ ib_key_tree' = ib_key_tree \ {TreeFirst}
            /\ kop' = [kop EXCEPT ![t].entry = TreeFirst]
            /\ kpc' = [kpc EXCEPT ![t] = "cl_hash_lock"]
            /\ UNCHANGED ib_key_lock
    /\ live' = IF ib_key_tree = {} THEN live ELSE live \ {TreeFirst}
    /\ UNCHANGED <<next_ib_key, kfi_key_hash, kfi_key_lock, reg_count>>
    /\ UNCHANGED <<opsVars, resVars, cacheVars, extVars>>

\* spin_lock(&kfi_key_lock) while ib_key_lock is held
KeyCleanupHashLock(t) ==
    /\ kpc[t] = "cl_hash_lock"
    /\ kfi_key_lock = "free"
    /\ kfi_key_lock' = t
    /\ kpc' = [kpc EXCEPT ![t] = "cl_hash_del"]
    /\ UNCHANGED <<next_ib_key, ib_key_tree, kfi_key_hash, ib_key_lock,
                   kop, live, reg_count>>
    /\ UNCHANGED <<opsVars, resVars, cacheVars, extVars>>

\* hash_del, spin_unlock(&kfi_key_lock), kfree
KeyCleanupHashDel(t) ==
    /\ kpc[t] = "cl_hash_del"
    /\ kfi_key_hash' = HashDel(kfi_key_hash, kop[t].entry)
    /\ kfi_key_lock' = "free"
    /\ kpc' = [kpc EXCEPT ![t] = "cl_loop"]
    /\ UNCHANGED <<next_ib_key, ib_key_tree, ib_key_lock, kop, live,
                   reg_count>>
    /\ UNCHANGED <<opsVars, resVars, cacheVars, extVars>>

(***************************************************************************)
(* Protection domains, completion queues, queue pairs and memory regions:  *)
(* the usage counters (kfi_verbs_compat.c, kfi_memory.c).                  *)
(***************************************************************************)
PDs == {"pd1", "pd2"}
CQs == {"cq1", "cq2"}
QpSlots == 1..MaxQps
MrSlots == 1..MaxMrs

NoPd == [live |-> FALSE, usecnt |-> 0]
NoCq == [live |-> FALSE, usecnt |-> 0]
NoQp == [live |-> FALSE, pd |-> "none", send_cq |-> "none", recv_cq |-> "none"]
\* cache_entry 0 is the NULL pointer kzalloc leaves
NoMr == [live |-> FALSE, pd |-> "none", usecnt |-> 0, lkey |-> U32(0, 0),
         rkey |-> U32(0, 0), kfi_key |-> 0, cache_entry |-> 0]

\* the native key the provider chooses for the MR object m
MrNativeKey(m) == 100 + m

\* atomic_inc without its effect
atomic_inc_skip(v) == v
\* atomic_dec without its effect
atomic_dec_skip(v) == v
atomic_inc(v) == v + 1
atomic_dec(v) == v - 1

\* no object created yet, allocs MR allocations to come
InitRes(allocs) ==
    /\ pds = [p \in PDs |-> NoPd]
    /\ cqs = [c \in CQs |-> NoCq]
    /\ qps = [q \in QpSlots |-> NoQp]
    /\ mrs = [m \in MrSlots |-> NoMr]
    /\ fabric_mrs = {}
    /\ mr_allocs = allocs
    /\ res_op = "none"
    /\ res_ret = 0

\* kfi_alloc_pd
kfi_alloc_pd(p, alloc_ok) ==
    /\ ~pds[p].live
    /\ res_op' = "kfi_alloc_pd"
    /\ IF ~alloc_ok
       THEN /\ res_ret' = -ENOMEM
            /\ UNCHANGED pds
       ELSE /\ pds' = [pds EXCEPT ![p] = [live |-> TRUE, usecnt |-> 0]]
            /\ res_ret' = 0
    /\ UNCHANGED <<cqs, qps, mrs, fabric_mrs, mr_allocs>>
    /\ UNCHANGED <<opsVars, keyVars, cacheVars, extVars>>

\* kfi_dealloc_pd
kfi_dealloc_pd(p) ==
    /\ pds[p].live
    /\ res_op' = "kfi_dealloc_pd"
    /\ IF pds[p].usecnt # 0
       THEN /\ res_ret' = -EBUSY
            /\ UNCHANGED pds
       ELSE /\ pds' = [pds EXCEPT ![p] = NoPd]
            /\ res_ret' = 0
    /\ UNCHANGED <<cqs, qps, mrs, fabric_mrs, mr_allocs>>
    /\ UNCHANGED <<opsVars, keyVars, cacheVars, extVars>>

\* kfi_create_cq succeeds or fails at its last failure point
CqFailures == {"none", "alloc_workqueue"}
CqFailureRet(fail) == IF fail = "none" THEN 0 ELSE -ENOMEM

\* kfi_create_cq
kfi_create_cq(c, fail) ==
    /\ ~cqs[c].live
    /\ res_op' = "kfi_create_cq"
    /\ res_ret' = CqFailureRet(fail)
    /\ cqs' = IF fail = "none"
              THEN [cqs EXCEPT ![c] = [live |-> TRUE, usecnt |-> 0]]
              ELSE cqs
    /\ UNCHANGED <<pds, qps, mrs, fabric_mrs, mr_allocs>>
    /\ UNCHANGED <<opsVars, keyVars, cacheVars, extVars>>

\* kfi_destroy_cq
kfi_destroy_cq(c) ==
    /\ cqs[c].live
    /\ res_op' = "kfi_destroy_cq"
    /\ IF cqs[c].usecnt # 0
       THEN /\ res_ret' = -EBUSY
            /\ UNCHANGED cqs
       ELSE /\ cqs' = [cqs EXCEPT ![c] = NoCq]
            /\ res_ret' = 0
    /\ UNCHANGED <<pds, qps, mrs, fabric_mrs, mr_allocs>>
    /\ UNCHANGED <<opsVars, keyVars, cacheVars, extVars>>

\* kfi_create_qp succeeds or fails at its last failure point
QpFailures == {"none", "bind_recv_cq"}
QpFailureRet(fail) == IF fail = "none" THEN 0 ELSE -EINVAL

\* kfi_create_qp with the increments of lines 344-346 moved in front of the
\* kfi_ep_bind calls
kfi_create_qp_count_first(q, p, sc, rc, fail) ==
    /\ ~qps[q].live
    /\ pds[p].live /\ cqs[sc].live /\ cqs[rc].live
    /\ res_op' = "kfi_create_qp"
    /\ res_ret' = QpFailureRet(fail)
    /\ pds' = [pds EXCEPT ![p].usecnt = atomic_inc(@)]
    /\ cqs' = LET s1 == [cqs EXCEPT ![sc].usecnt = atomic_inc(@)]
              IN [s1 EXCEPT ![rc].usecnt = atomic_inc(@)]
    /\ IF fail # "none"
       THEN UNCHANGED qps
       ELSE qps' = [qps EXCEPT ![q] = [live |-> TRUE, pd |-> p,
                                       send_cq |-> sc, recv_cq |-> rc]]
    /\ UNCHANGED <<mrs, fabric_mrs, mr_allocs>>
    /\ UNCHANGED <<opsVars, keyVars, cacheVars, extVars>>

\* kfi_create_qp(pd, init_attr) with init_attr->send_cq = sc and
\* init_attr->recv_cq = rc; q is the object kzalloc returns
kfi_create_qp(q, p, sc, rc, fail) ==
    /\ ~qps[q].live
    /\ pds[p].live /\ cqs[sc].live /\ cqs[rc].live
    /\ res_op' = "kfi_create_qp"
    /\ res_ret' = QpFailureRet(fail)
    /\ IF fail # "none"
       THEN UNCHANGED <<pds, cqs, qps>>
       ELSE /\ qps' = [qps EXCEPT ![q] = [live |-> TRUE, pd |-> p,
                                          send_cq |-> sc, recv_cq |-> rc]]
            /\ pds' = [pds EXCEPT ![p].usecnt = atomic_inc(@)]
            /\ cqs' = LET s1 == [cqs EXCEPT ![sc].usecnt = atomic_inc(@)]
                      IN [s1 EXCEPT ![rc].usecnt = atomic_inc(@)]
    /\ UNCHANGED <<mrs, fabric_mrs, mr_allocs>>
    /\ UNCHANGED <<opsVars, keyVars, cacheVars, extVars>>

\* kfi_destroy_qp
kfi_destroy_qp(q) ==
    /\ qps[q].live
    /\ res_op' = "kfi_destroy_qp"
    /\ res_ret' = 0
    /\ pds' = [pds EXCEPT ![qps[q].pd].usecnt = atomic_dec(@)]
    /\ cqs' = LET s1 == [cqs EXCEPT ![qps[q].send_cq].usecnt = atomic_dec(@)]
              IN [s1 EXCEPT ![qps[q].recv_cq].usecnt = atomic_dec(@)]
    /\ qps' = [qps EXCEPT ![q] = NoQp]
    /\ UNCHANGED <<mrs, fabric_mrs, mr_allocs>>
    /\ UNCHANGED <<opsVars, keyVars, cacheVars, extVars>>

\* kfi_key_unregister that leaves the mapping in place
kfi_key_unregister_skip(ib_key) ==
    [tree |-> ib_key_tree, hash |-> kfi_key_hash]

\* kfi_key_register(kfi_key, &ib_key) run to its end by one caller: the
\* return value, *ib_key_out, and the counter, tree and hash it leaves
kfi_key_register(kfi_key, alloc_ok) ==
    IF ~alloc_ok
    THEN [ret |-> -ENOMEM, ib_key |-> U32(0, 0), next |-> next_ib_key,
          tree |-> ib_key_tree, hash |-> kfi_key_hash]
    ELSE LET ib == Inc32(next_ib_key)
             e == Entry(ib, kfi_key)
         IN IF TreeFind(ib) # {}
            THEN [ret |-> -EEXIST, ib_key |-> U32(0, 0), next |-> ib,
                  tree |-> ib_key_tree, hash |-> kfi_key_hash]
            ELSE [ret |-> 0, ib_key |-> ib, next |-> ib,
                  tree |-> ib_key_tree \cup {e},
                  hash |-> <<e>> \o kfi_key_hash]

\* kfi_key_unregister(ib_key) run to its end by one caller: the tree and the
\* hash it leaves
kfi_key_unregister(ib_key) ==
    IF TreeFind(ib_key) = {}
    THEN [tree |-> ib_key_tree, hash |-> kfi_key_hash]
    ELSE LET e == CHOOSE x \in TreeFind(ib_key) : TRUE
         IN [tree |-> ib_key_tree \ {e}, hash |-> HashDel(kfi_key_hash, e)]

\* kfi_alloc_mr / kfi_get_dma_mr succeeds, or fails at its first kzalloc or
\* at the kzalloc of kfi_key_register
MrFailures == {"none", "kzalloc", "key_kzalloc"}

\* the common body of kfi_alloc_mr and kfi_get_dma_mr: kzalloc (the object
\* m), usecnt = 1, kfi_mr_reg, kfi_key_register, lkey = rkey = ib_key,
\* atomic_inc(&kpd->usecnt)
MrCreate(name, m, p, fail) ==
    LET k == kfi_key_register(MrNativeKey(m), fail # "key_kzalloc") IN
    /\ ~mrs[m].live
    /\ pds[p].live
    /\ mr_allocs > 0
    /\ mr_allocs' = mr_allocs - 1
    /\ res_op' = name
    /\ IF fail = "kzalloc"
       THEN /\ res_ret' = -ENOMEM
            /\ UNCHANGED <<pds, mrs, fabric_mrs, next_ib_key, ib_key_tree,
                           kfi_key_hash>>
       ELSE /\ next_ib_key' = k.next
            /\ ib_key_tree' = k.tree
            /\ kfi_key_hash' = k.hash
            /\ res_ret' = k.ret
            /\ IF k.ret # 0
               THEN UNCHANGED <<pds, mrs, fabric_mrs>>
               ELSE /\ mrs' = [mrs EXCEPT ![m] =
                          [live |-> TRUE, pd |-> p, usecnt |-> 1,
                           lkey |-> k.ib_key, rkey |-> k.ib_key,
                           kfi_key |-> MrNativeKey(m), cache_entry |-> 0]]
                    /\ fabric_mrs' = fabric_mrs \cup {MrNativeKey(m)}
                    /\ pds' = [pds EXCEPT ![p].usecnt = atomic_inc(@)]

\* kfi_alloc_mr(pd, mr_type, max_num_sg)
kfi_alloc_mr(m, p, type_ok, fail) ==
    IF ~type_ok
    THEN /\ ~mrs[m].live
         /\ pds[p].live
         /\ mr_allocs > 0
         /\ mr_allocs' = mr_allocs - 1
         /\ res_op' = "kfi_alloc_mr"
         /\ res_ret' = -EOPNOTSUPP
         /\ UNCHANGED <<pds, mrs, fabric_mrs, next_ib_key, ib_key_tree,
                        kfi_key_hash>>
    ELSE MrCreate("kfi_alloc_mr", m, p, fail)

\* kfi_get_dma_mr(pd, mr_access_flags)
kfi_get_dma_mr(m, p, fail) == MrCreate("kfi_get_dma_mr", m, p, fail)

\* kfi_dereg_mr(mr)
kfi_dereg_mr(m) ==
    /\ mrs[m].live
    /\ res_op' = "kfi_dereg_mr"
    /\ IF mrs[m].usecnt > 1
       THEN /\ res_ret' = -EBUSY
            /\ UNCHANGED <<pds, mrs, fabric_mrs, ib_key_tree, kfi_key_hash>>
       ELSE LET u == kfi_key_unregister(mrs[m].lkey) IN
            /\ ib_key_tree' = u.tree
            /\ kfi_key_hash' = u.hash
            /\ fabric_mrs' = fabric_mrs \ {mrs[m].kfi_key}
            /\ pds' = [pds EXCEPT ![mrs[m].pd].usecnt = atomic_dec(@)]
            /\ mrs' = [mrs EXCEPT ![m] = NoMr]
            /\ res_ret' = 0
    /\ UNCHANGED <<next_ib_key, mr_allocs>>

\* what a call on an MR leaves alone when no cache is involved
MrFrame ==
    /\ UNCHANGED <<cqs, qps>>
    /\ UNCHANGED <<ib_key_lock, kfi_key_lock, kpc, kop, live, reg_count>>
    /\ UNCHANGED <<opsVars, cacheVars, extVars>>

\* the MR object the next kzalloc of a struct kfi_mr returns, 0 when the
\* allocator has none left
FreeMr ==
    IF mr_allocs > 0 /\ \E m \in MrSlots : ~mrs[m].live /\ centries[m].mr = 0
    THEN CHOOSE m \in MrSlots :
             /\ ~mrs[m].live /\ centries[m].mr = 0
             /\ \A n \in MrSlots : ~mrs[n].live /\ centries[n].mr = 0 => m <= n
    ELSE 0

\* the QP object the next kzalloc of a struct kfi_qp returns, 0 when the
\* allocator has none left
FreeQp ==
    IF \E q \in QpSlots : ~qps[q].live
    THEN CHOOSE q \in QpSlots :
             ~qps[q].live /\ \A n \in QpSlots : ~qps[n].live => q <= n
    ELSE 0

AllocPd == \E p \in PDs, alloc_ok \in BOOLEAN : kfi_alloc_pd(p, alloc_ok)
DeallocPd == \E p \in PDs : kfi_dealloc_pd(p)
CreateCq == \E c \in CQs, fail \in CqFailures : kfi_create_cq(c, fail)
DestroyCq == \E c \in CQs : kfi_destroy_cq(c)
CreateQp ==
    \E p \in PDs, sc \in CQs, rc \in CQs, fail \in QpFailures :
        FreeQp # 0 /\ kfi_create_qp(FreeQp, p, sc, rc, fail)
DestroyQp == \E q \in QpSlots : kfi_destroy_qp(q)
AllocMr ==
    \E p \in PDs, type_ok \in BOOLEAN, fail \in MrFailures :
        FreeMr # 0 /\ kfi_alloc_mr(FreeMr, p, type_ok, fail) /\ MrFrame
GetDmaMr ==
    \E p \in PDs, fail \in MrFailures :
        FreeMr # 0 /\ kfi_get_dma_mr(FreeMr, p, fail) /\ MrFrame
DeregMr == \E m \in MrSlots : kfi_dereg_mr(m) /\ MrFrame

(***************************************************************************)
(* The memory-registration cache (kfi_memory.c).                           *)
(***************************************************************************)
\* (vaddr, len, access) tuples handed to kfi_mr_cache_get
CKey(vaddr, len, access) == [vaddr |-> vaddr, len |-> len, access |-> access]
CacheKeys == {CKey(1, 1, 1), CKey(1, 2, 1), CKey(1, 2, 2), CKey(2, 1, 1),
              CKey(3, 1, 1)}

\* struct kfi_mr_cache_entry; entry i is the one made for the MR object i
CEntry(key, mr, refcount) ==
    [vaddr |-> key.vaddr, len |-> key.len, access |-> key.access, mr |-> mr,
     refcount |-> refcount]
NoCEntry == CEntry(CKey(0, 0, 0), 0, 0)
KeyOf(e) == CKey(e.vaddr, e.len, e.access)

\* struct rb_node: a leaf (NULL) or a red or black node with two subtrees
Nil == [nil |-> TRUE]
TNode(id, red, l, r) == [nil |-> FALSE, id |-> id, red |-> red, l |-> l, r |-> r]
IsRed(t) == ~t.nil /\ t.red

RECURSIVE TreeIds(_)
TreeIds(t) == IF t.nil THEN {} ELSE {t.id} \cup TreeIds(t.l) \cup TreeIds(t.r)

\* the search loop of kfi_mr_cache_get: the entry found, 0 when the walk
\* reaches a leaf
RECURSIVE CacheSearch(_, _, _)
CacheSearch(t, key, ent) ==
    IF t.nil THEN 0
    ELSE LET e == ent[t.id] IN
         IF key.vaddr < e.vaddr THEN CacheSearch(t.l, key, ent)
         ELSE IF key.vaddr > e.vaddr THEN CacheSearch(t.r, key, ent)
         ELSE IF key.len # e.len
         THEN CacheSearch(IF key.len < e.len THEN t.l ELSE t.r, key, ent)
         ELSE IF key.access # e.access
         THEN CacheSearch(IF key.access < e.access THEN t.l ELSE t.r, key, ent)
         ELSE t.id

\* the colour fix of rb_insert_color at a node whose child and grandchild
\* are both red: recolour when both children are red, rotate otherwise
Rebalance(g) ==
    LET l == g.l
        r == g.r
        violL == IsRed(l) /\ (IsRed(l.l) \/ IsRed(l.r))
        violR == IsRed(r) /\ (IsRed(r.l) \/ IsRed(r.r))
    IN
    IF ~(violL \/ violR) THEN g
    ELSE IF IsRed(l) /\ IsRed(r)
    THEN TNode(g.id, TRUE, [l EXCEPT !.red = FALSE], [r EXCEPT !.red = FALSE])
    ELSE IF violL
    THEN IF IsRed(l.l)
         THEN TNode(l.id, FALSE, l.l, TNode(g.id, TRUE, l.r, r))
         ELSE TNode(l.r.id, FALSE, TNode(l.id, TRUE, l.l, l.r.l),
                    TNode(g.id, TRUE, l.r.r, r))
    ELSE IF IsRed(r.r)
         THEN TNode(r.id, FALSE, TNode(g.id, TRUE, l, r.l), r.r)
         ELSE TNode(r.l.id, FALSE, TNode(g.id, TRUE, l, r.l.l),
                    TNode(r.id, TRUE, r.l.r, r.r))

\* the insertion walk of kfi_mr_cache_get (left when vaddr < this->vaddr,
\* right otherwise), rb_link_node, and rb_insert_color on the way back up
RECURSIVE TreeLink(_, _, _)
TreeLink(t, id, ent) ==
    IF t.nil THEN TNode(id, TRUE, Nil, Nil)
    ELSE IF ent[id].vaddr < ent[t.id].vaddr
    THEN Rebalance([t EXCEPT !.l = TreeLink(t.l, id, ent)])
    ELSE Rebalance([t EXCEPT !.r = TreeLink(t.r, id, ent)])

\* the tree after the insertion: the root is black
rb_insert(root, id, ent) == [TreeLink(root, id, ent) EXCEPT !.red = FALSE]

RECURSIVE TreeFirstId(_)
TreeFirstId(t) == IF t.l.nil THEN t.id ELSE TreeFirstId(t.l)

\* rb_erase(&entry->node, &cache->root): the node leaves the tree, a node
\* with two children is replaced by its successor.  The recolouring of
\* rb_erase is left out
RECURSIVE rb_erase(_, _)
rb_erase(t, id) ==
    IF t.nil THEN t
    ELSE IF t.id = id
    THEN IF t.l.nil THEN t.r
         ELSE IF t.r.nil THEN t.l
         ELSE TNode(TreeFirstId(t.r), t.red, t.l, rb_erase(t.r, TreeFirstId(t.r)))
    ELSE [t EXCEPT !.l = rb_erase(t.l, id), !.r = rb_erase(t.r, id)]

\* list_del(&entry->lru)
list_del(lru, id) == SelectSeq(lru, LAMBDA x : x # id)
\* list_add(&entry->lru, &cache->lru)
list_add(lru, id) == <<id>> \o lru

\* the test of line 534 answering yes for a referenced entry
LruEvictableAlways(e) == TRUE
\* the test of line 611 answering yes for a referenced entry
FlushRemovableAlways(e) == TRUE
\* atomic_read(&lru_entry->refcount) == 0 in kfi_mr_cache_get
LruEvictable(e) == e.refcount = 0
\* atomic_read(&entry->refcount) == 0 in kfi_mr_cache_flush
FlushRemovable(e) == e.refcount = 0

IdleCacheOp ==
    [op |-> "none", key |-> CKey(0, 0, 0), pd |-> "none", mr |-> 0, ret |-> 0,
     victim |-> 0, tmp |-> 0, hits0 |-> 0, misses0 |-> 0, present0 |-> FALSE,
     kept0 |-> {}]

\* the entries linked into the LRU list
LruIds == {cache_lru[i] : i \in 1..Len(cache_lru)}
\* the linked entries made for a tuple
EntriesFor(key) == {i \in LruIds : KeyOf(centries[i]) = key}

\* after kfi_mr_cache_create(n), with calls cache calls to come
InitCache(n, calls) ==
    /\ cache_root = Nil
    /\ cache_lru = <<>>
    /\ centries = [m \in MrSlots |-> NoCEntry]
    /\ current_entries = 0
    /\ max_entries = n
    /\ hits = 0
    /\ misses = 0
    /\ cpc = [t \in Threads |-> "idle"]
    /\ cop = [t \in Threads |-> IdleCacheOp]
    /\ cprev = [t \in Threads |-> IdleCacheOp]
    /\ held = [m \in MrSlots |-> 0]
    /\ ccalls = calls

\* the variables kfi_get_dma_mr and kfi_dereg_mr write
mrCallVars == <<pds, mrs, fabric_mrs, mr_allocs, res_op, res_ret, next_ib_key,
                ib_key_tree, kfi_key_hash>>
\* what a cache call leaves alone
CacheFrame ==
    /\ UNCHANGED <<cqs, qps>>
    /\ UNCHANGED <<ib_key_lock, kfi_key_lock, kpc, kop, live, reg_count>>
    /\ UNCHANGED <<opsVars, extVars, max_entries>>

\* a call starts: the previous call of the thread is kept in cprev
CacheCall(t, op) ==
    /\ cpc[t] = "idle"
    /\ ccalls > 0
    /\ ccalls' = ccalls - 1
    /\ cprev' = [cprev EXCEPT ![t] = cop[t]]
    /\ cop' = [cop EXCEPT ![t] = op]

\* kfi_mr_cache_get, first critical section (lines 465-501): the search,
\* then the hit (refcount, LRU head, hits, return entry->mr) or the miss
CacheGetSearch(t, key, p) ==
    LET found == CacheSearch(cache_root, key, centries)
        op == [IdleCacheOp EXCEPT !.op = "get", !.key = key, !.pd = p,
                                  !.hits0 = hits, !.misses0 = misses,
                                  !.present0 = (EntriesFor(key) # {})]
    IN
    /\ pds[p].live
    /\ IF found # 0
       THEN /\ CacheCall(t, [op EXCEPT !.mr = centries[found].mr])
            /\ centries' = [centries EXCEPT ![found].refcount = atomic_inc(@)]
            /\ cache_lru' = list_add(list_del(cache_lru, found), found)
            /\ hits' = hits + 1
            /\ held' = [held EXCEPT ![centries[found].mr] = @ + 1]
            /\ UNCHANGED <<misses, cpc>>
       ELSE /\ CacheCall(t, op)
            /\ misses' = misses + 1
            /\ cpc' = [cpc EXCEPT ![t] = "get_alloc"]
            /\ UNCHANGED <<centries, cache_lru, hits, held>>
    /\ UNCHANGED <<cache_root, current_entries>>
    /\ UNCHANGED mrCallVars
    /\ CacheFrame

\* the answers of the environment the unlocked part of a call consumes
UnlockedInputs(t) ==
    IF cpc[t] = "get_alloc"
    THEN {[fail |-> f, entry_ok |-> TRUE] :
             f \in IF FreeMr = 0 THEN {"kzalloc"} ELSE MrFailures}
    ELSE IF cpc[t] = "get_entry"
    THEN {[fail |-> "none", entry_ok |-> b] : b \in BOOLEAN}
    ELSE {[fail |-> "none", entry_ok |-> TRUE]}

\* what a cache call runs with cache->lock released: kfi_get_dma_mr (line
\* 506), the kzalloc of the entry (511-522), and the kfi_dereg_mr / kfree of
\* an entry that eviction (540-541) or flush (617-618) has unlinked
CacheUnlocked(t, fail, entry_ok) ==
    /\ cpc[t] \in {"get_alloc", "get_entry", "evict_dereg", "flush_dereg"}
    /\ CASE cpc[t] = "get_alloc" ->
              IF FreeMr = 0
              THEN /\ cop' = [cop EXCEPT ![t].ret = -ENOMEM]
                   /\ cpc' = [cpc EXCEPT ![t] = "idle"]
                   /\ UNCHANGED mrCallVars
                   /\ UNCHANGED centries
              ELSE /\ kfi_get_dma_mr(FreeMr, cop[t].pd, fail)
                   /\ cop' = [cop EXCEPT ![t].ret = res_ret',
                                         ![t].mr = IF res_ret' = 0 THEN FreeMr ELSE 0]
                   /\ cpc' = [cpc EXCEPT ![t] =
                                 IF res_ret' = 0 THEN "get_entry" ELSE "idle"]
                   /\ UNCHANGED centries
         [] cpc[t] = "get_entry" ->
              IF entry_ok
              THEN /\ centries' = [centries EXCEPT ![cop[t].mr] =
                                      CEntry(cop[t].key, cop[t].mr, 1)]
                   /\ cpc' = [cpc EXCEPT ![t] = "get_insert"]
                   /\ UNCHANGED cop
                   /\ UNCHANGED mrCallVars
              ELSE /\ kfi_dereg_mr(cop[t].mr)
                   /\ cop' = [cop EXCEPT ![t].ret = -ENOMEM, ![t].mr = 0]
                   /\ cpc' = [cpc EXCEPT ![t] = "idle"]
                   /\ UNCHANGED centries
         [] OTHER ->
              /\ kfi_dereg_mr(centries[cop[t].victim].mr)
              /\ centries' = [centries EXCEPT ![cop[t].victim] = NoCEntry]
              /\ cpc' = [cpc EXCEPT ![t] =
                            IF cpc[t] = "evict_dereg" THEN "get_link"
                            ELSE "flush_loop"]
              /\ UNCHANGED cop
    /\ UNCHANGED <<cache_root, cache_lru, current_entries, hits, misses,
                   cprev, held, ccalls>>
    /\ CacheFrame

\* kfi_mr_cache_get, second critical section (lines 525-569): the eviction
\* of the LRU tail of a full cache, which ends the section at line 539, or
\* the insertion into the tree and at the head of the LRU list
CacheGetInsert(t) ==
    /\ cpc[t] \in {"get_insert", "get_link"}
    /\ IF /\ cpc[t] = "get_insert"
          /\ current_entries >= max_entries
          /\ cache_lru # <<>>
          /\ LruEvictable(centries[cache_lru[Len(cache_lru)]])
       THEN LET lru_entry == cache_lru[Len(cache_lru)] IN
            /\ cache_root' = rb_erase(cache_root, lru_entry)
            /\ cache_lru' = list_del(cache_lru, lru_entry)
            /\ current_entries' = atomic_dec(current_entries)
            /\ cop' = [cop EXCEPT ![t].victim = lru_entry]
            /\ cpc' = [cpc EXCEPT ![t] = "evict_dereg"]
            /\ UNCHANGED held
       ELSE /\ cache_root' = rb_insert(cache_root, cop[t].mr, centries)
            /\ cache_lru' = list_add(cache_lru, cop[t].mr)
            /\ current_entries' = atomic_inc(current_entries)
            /\ cop' = [cop EXCEPT ![t].ret = 0]
            /\ cpc' = [cpc EXCEPT ![t] = "idle"]
            /\ held' = [held EXCEPT ![cop[t].mr] = @ + 1]
    /\ UNCHANGED <<centries, hits, misses, cprev, ccalls>>
    /\ UNCHANGED mrCallVars
    /\ CacheFrame

\* kfi_mr_cache_put(cache, mr) by a caller that holds a reference to mr
CachePut(t, m) ==
    /\ held[m] > 0
    /\ CacheCall(t, [IdleCacheOp EXCEPT !.op = "put", !.mr = m])
    /\ held' = [held EXCEPT ![m] = @ - 1]
    /\ IF mrs[m].cache_entry = 0
       THEN UNCHANGED centries
       ELSE centries' = [centries EXCEPT ![mrs[m].cache_entry].refcount =
                            atomic_dec(@)]
    /\ UNCHANGED <<cache_root, cache_lru, current_entries, hits, misses, cpc>>
    /\ UNCHANGED mrCallVars
    /\ CacheFrame

\* the tails of the LRU list, the empty one included
Suffixes(lru) == {SubSeq(lru, i, Len(lru)) : i \in 1..(Len(lru) + 1)}

\* the part of the list a flush section still has to walk: all of it at the
\* start, the part from tmp on after a removal; when tmp was unlinked and
\* freed in the meantime the walk continues from a dangling pointer
FlushRest(t) ==
    IF cpc[t] = "idle" THEN {cache_lru}
    ELSE IF cop[t].tmp = 0 THEN {<<>>}
    ELSE IF cop[t].tmp \in LruIds
    THEN {SubSeq(cache_lru, CHOOSE i \in 1..Len(cache_lru) :
                                cache_lru[i] = cop[t].tmp, Len(cache_lru))}
    ELSE Suffixes(cache_lru)

\* kfi_mr_cache_flush, one critical section (lines 608-616 / 620-624): the
\* walk up to the first entry with refcount 0, which is unlinked and ends
\* the section, or up to the end of the list
CacheFlush(t) ==
    /\ cpc[t] \in {"idle", "flush_loop"}
    /\ \E rest \in FlushRest(t) :
        LET idx == {i \in 1..Len(rest) : FlushRemovable(centries[rest[i]])}
            first == CHOOSE i \in idx : \A j \in idx : i <= j
            start == [IdleCacheOp EXCEPT
                         !.op = "flush",
                         !.kept0 = {i \in LruIds : centries[i].refcount # 0}]
            op == IF cpc[t] = "idle" THEN start ELSE cop[t]
        IN
        /\ IF cpc[t] = "idle"
           THEN /\ ccalls > 0
                /\ ccalls' = ccalls - 1
                /\ cprev' = [cprev EXCEPT ![t] = cop[t]]
           ELSE UNCHANGED <<ccalls, cprev>>
        /\ IF idx = {}
           THEN /\ cop' = [cop EXCEPT ![t] = [op EXCEPT !.tmp = 0]]
                /\ cpc' = [cpc EXCEPT ![t] = "idle"]
                /\ UNCHANGED <<cache_root, cache_lru, current_entries>>
           ELSE /\ cache_root' = rb_erase(cache_root, rest[first])
                /\ cache_lru' = list_del(cache_lru, rest[first])
                /\ current_entries' = atomic_dec(current_entries)
                /\ cop' = [cop EXCEPT ![t] =
                              [op EXCEPT !.victim = rest[first],
                                         !.tmp = IF first < Len(rest)
                                                 THEN rest[first + 1] ELSE 0]]
                /\ cpc' = [cpc EXCEPT ![t] = "flush_dereg"]
    /\ UNCHANGED <<centries, hits, misses, held>>
    /\ UNCHANGED mrCallVars
    /\ CacheFrame

CacheStep(t, keys) ==
    \/ \E key \in keys, p \in PDs : CacheGetSearch(t, key, p)
    \/ \E in \in UnlockedInputs(t) : CacheUnlocked(t, in.fail, in.entry_ok)
    \/ CacheGetInsert(t)
    \/ \E m \in MrSlots : CachePut(t, m)
    \/ CacheFlush(t)

(***************************************************************************)
(* kfi_errno_to_ib_status called on its own (tests/unit/test_translate.c). *)
(***************************************************************************)
\* the arguments tried: every code of either sign up to MaxStatusCode, which
\* covers the taxonomy of kfi_errno.h, and the unknown value of the unit test
StatusCodes == (-MaxStatusCode .. MaxStatusCode) \cup {-9999}

\* no call made yet
InitXl ==
    /\ xl_in = 0
    /\ xl_out = "unset"

\* status = kfi_errno_to_ib_status(kfi_err)
TranslateStatus(kfi_err) ==
    /\ xl_in' = kfi_err
    /\ xl_out' = kfi_errno_to_ib_status(kfi_err)
    /\ UNCHANGED <<coreVars, progVars, parseVars, sge_send, mapVars, batchVars, sq_trace, lateVars>>

(***************************************************************************)
(* Progress engine: kfi_progress.c.                                        *)
(***************************************************************************)
Devices == {"dev1", "dev2"}

\* struct kfi_progress_thread and its kernel thread; pc is where the worker
\* is: "loop" at the while test, "got" after kfi_cq_read
NoPt ==
    [device |-> "none", should_stop |-> 0, thread |-> "none", freed |-> FALSE,
     pc |-> "loop", ret |-> 0]

PtIds == 1..MaxStarts

\* the next struct kfi_progress_thread kzalloc returns
FreePt == MaxStarts - pt_allocs + 1

InitProg(starts) ==
    /\ progress_threads = [i \in 1..MAX_DEVICES |-> 0]
    /\ num_progress_threads = 0
    /\ pts = [id \in PtIds |-> NoPt]
    /\ pt_allocs = starts
    /\ default_cq = [d \in Devices |-> <<>>]
    /\ produced = 0
    /\ prog_read = <<>>
    /\ delivered = <<>>
    /\ prog_fault = "none"
    /\ prog_op = [fn |-> "none", device |-> "none", ret |-> 0]

\* the fabric queues a completion entry on a device's default CQ
ProgFabricComplete(d) ==
    /\ produced < MaxProgEntries
    /\ produced' = produced + 1
    /\ default_cq' = [default_cq EXCEPT ![d] = Append(@, produced + 1)]
    /\ UNCHANGED <<progress_threads, num_progress_threads, pts, pt_allocs,
                   prog_read, delivered, prog_fault, prog_op>>
    /\ UNCHANGED <<coreVars, xlVars, parseVars, sge_send, mapVars, batchVars, sq_trace, lateVars>>

\* what kfi_cq_read(pt->device->default_cq, entries, 16) may return
ProgReadOutcomes(d) ==
    CqReadErrors \cup
        (IF default_cq[d] = <<>> THEN {-KFI_EAGAIN}
         ELSE 1..Min(ProgBatch, Len(default_cq[d])))

\* kfi_progress_worker: the while test and the kfi_cq_read of one iteration
ProgressWorkerRead(id, read_ret) ==
    LET d == pts[id].device IN
    /\ pts[id].thread = "running"
    /\ pts[id].pc = "loop"
    /\ pts[id].should_stop = 0
    /\ read_ret \in ProgReadOutcomes(d)
    /\ pts' = [pts EXCEPT ![id].pc = "got", ![id].ret = read_ret]
    /\ IF read_ret > 0
       THEN /\ default_cq' = [default_cq EXCEPT
                                ![d] = SubSeq(@, read_ret + 1, Len(@))]
            /\ prog_read' = Append(prog_read,
                                   [device |-> d,
                                    entries |-> SubSeq(default_cq[d], 1, read_ret)])
       ELSE UNCHANGED <<default_cq, prog_read>>
    /\ UNCHANGED <<progress_threads, num_progress_threads, pt_allocs, produced,
                   delivered, prog_fault, prog_op>>
    /\ UNCHANGED <<coreVars, xlVars, parseVars, sge_send, mapVars, batchVars, sq_trace, lateVars>>

\* kfi_progress_worker with a read that is retried on the spot after an
\* error other than -KFI_EAGAIN, without going back to the while test
ProgressWorkerHandleRetry(id) ==
    /\ pts[id].thread = "running"
    /\ pts[id].pc = "got"
    /\ pts' = [pts EXCEPT ![id].pc =
                  IF pts[id].ret < 0 /\ pts[id].ret # -KFI_EAGAIN THEN "got"
                  ELSE "loop"]
    /\ UNCHANGED <<progress_threads, num_progress_threads, pt_allocs, default_cq,
                   produced, prog_read, delivered, prog_fault, prog_op>>
    /\ UNCHANGED <<coreVars, xlVars, parseVars, sge_send, mapVars, batchVars, sq_trace, lateVars>>

\* kfi_progress_worker: the rest of the iteration: pr_debug on ret > 0, a
\* sleep otherwise, the yield check; the entries read are not used
ProgressWorkerHandle(id) ==
    /\ pts[id].thread = "running"
    /\ pts[id].pc = "got"
    /\ pts' = [pts EXCEPT ![id].pc = "loop"]
    /\ UNCHANGED <<progress_threads, num_progress_threads, pt_allocs, default_cq,
                   produced, prog_read, delivered, prog_fault, prog_op>>
    /\ UNCHANGED <<coreVars, xlVars, parseVars, sge_send, mapVars, batchVars, sq_trace, lateVars>>

\* kfi_progress_start(device)
kfi_progress_start(d, alloc_ok, create_ok) ==
    /\ pt_allocs > 0
    /\ prog_fault = "none"
    /\ IF num_progress_threads >= MAX_DEVICES \/ ~alloc_ok
       THEN /\ prog_op' = [fn |-> "kfi_progress_start", device |-> d, ret |-> -ENOMEM]
            /\ UNCHANGED <<progress_threads, num_progress_threads, pts, pt_allocs>>
       ELSE IF ~create_ok
       THEN \* kthread_create failed: kfree(pt)
            /\ prog_op' = [fn |-> "kfi_progress_start", device |-> d, ret |-> -ENOMEM]
            /\ pt_allocs' = pt_allocs - 1
            /\ pts' = [pts EXCEPT ![FreePt] = [NoPt EXCEPT !.device = d, !.freed = TRUE]]
            /\ UNCHANGED <<progress_threads, num_progress_threads>>
       ELSE /\ prog_op' = [fn |-> "kfi_progress_start", device |-> d, ret |-> 0]
            /\ pt_allocs' = pt_allocs - 1
            /\ pts' = [pts EXCEPT ![FreePt] = [NoPt EXCEPT !.device = d, !.thread = "running"]]
            /\ progress_threads' = [progress_threads EXCEPT
                                      ![num_progress_threads + 1] = FreePt]
            /\ num_progress_threads' = num_progress_threads + 1
    /\ UNCHANGED <<default_cq, produced, prog_read, delivered, prog_fault>>
    /\ UNCHANGED <<coreVars, xlVars, parseVars, sge_send, mapVars, batchVars, sq_trace, lateVars>>

\* atomic_set(should_stop, 1); kthread_stop(thread); kfree(pt) on one driver:
\* kthread_stop returns when the worker has left its loop
StopPt(ps, id) ==
    [ps EXCEPT ![id].should_stop = 1,
               ![id].thread = IF ps[id].thread = "running" THEN "exited" ELSE "stopped_twice",
               ![id].freed = TRUE]

\* the slots kfi_progress_stop looks at before it returns: up to the first
\* slot that is NULL or belongs to the device
RECURSIVE StopScan(_, _)
StopScan(d, i) ==
    IF i > num_progress_threads THEN [slot |-> 0, fault |-> "none"]
    ELSE IF progress_threads[i] = 0 THEN [slot |-> i, fault |-> "null_slot"]
    ELSE IF pts[progress_threads[i]].freed THEN [slot |-> i, fault |-> "freed_slot"]
    ELSE IF pts[progress_threads[i]].device = d THEN [slot |-> i, fault |-> "none"]
    ELSE StopScan(d, i + 1)

\* kfi_progress_stop(device)
kfi_progress_stop(d) ==
    LET s == StopScan(d, 1) IN
    /\ prog_fault = "none"
    /\ prog_op' = [fn |-> "kfi_progress_stop", device |-> d, ret |-> 0]
    /\ IF s.fault # "none"
       THEN \* progress_threads[i]->device read through a NULL or freed slot
            /\ prog_fault' = s.fault
            /\ UNCHANGED <<progress_threads, pts>>
       ELSE IF s.slot = 0
       THEN UNCHANGED <<progress_threads, pts, prog_fault>>
       ELSE /\ pts' = StopPt(pts, progress_threads[s.slot])
            /\ progress_threads' = [progress_threads EXCEPT ![s.slot] = 0]
            /\ UNCHANGED prog_fault
    /\ UNCHANGED <<num_progress_threads, pt_allocs, default_cq, produced,
                   prog_read, delivered>>
    /\ UNCHANGED <<coreVars, xlVars, parseVars, sge_send, mapVars, batchVars, sq_trace, lateVars>>

\* the loop of kfi_progress_cleanup_all over slots i..num_progress_threads
RECURSIVE CleanupFrom(_, _)
CleanupFrom(ps, i) ==
    IF i > num_progress_threads THEN ps
    ELSE IF progress_threads[i] # 0
         THEN CleanupFrom(StopPt(ps, progress_threads[i]), i + 1)
         ELSE CleanupFrom(ps, i + 1)

\* kfi_progress_cleanup_all(): the slots keep their pointers, only
\* num_progress_threads is reset
kfi_progress_cleanup_all ==
    /\ prog_fault = "none"
    /\ prog_op' = [fn |-> "kfi_progress_cleanup_all", device |-> "none", ret |-> 0]
    /\ pts' = CleanupFrom(pts, 1)
    /\ num_progress_threads' = 0
    /\ UNCHANGED <<progress_threads, pt_allocs, default_cq, produced, prog_read,
                   delivered, prog_fault>>
    /\ UNCHANGED <<coreVars, xlVars, parseVars, sge_send, mapVars, batchVars, sq_trace, lateVars>>

(***************************************************************************)
(* kfi_parse_vni_from_options (kfi_connection.c).                          *)
(***************************************************************************)
Digits == <<"0", "1", "2", "3", "4", "5", "6", "7", "8", "9">>

\* the value of a decimal digit, -1 for any other character
DigitVal(c) ==
    IF \E d \in 1..10 : Digits[d] = c
    THEN (CHOOSE d \in 1..10 : Digits[d] = c) - 1
    ELSE -1

\* the digits of s read from the left onto acc, -1 at a character that is
\* not a digit
RECURSIVE DigitsValue(_, _)
DigitsValue(s, acc) ==
    IF s = <<>> THEN acc
    ELSE IF DigitVal(Head(s)) < 0 THEN -1
    ELSE DigitsValue(Tail(s), acc * 10 + DigitVal(Head(s)))

\* kstrtoul(value, 10, &vni) on the value strings tried, all below ULONG_MAX
kstrtoul(s) ==
    IF s = <<>> \/ DigitsValue(s, 0) < 0
    THEN [ret |-> -EINVAL, val |-> 0]
    ELSE [ret |-> 0, val |-> DigitsValue(s, 0)]

\* kstrtoul without the test for characters that are not digits
kstrtoul_lenient(s) ==
    [ret |-> 0, val |-> IF DigitsValue(s, 0) < 0 THEN 0 ELSE DigitsValue(s, 0)]

\* one element of the comma-separated list: the text before '=', whether
\* there is an '=', the text after it
Opt(key, eq, value) == [key |-> key, eq |-> eq, value |-> value]

OptKeys == {"vni", "proto"}
OptValues ==
    {<<>>, <<"0">>, <<"4", "2">>, <<"6", "5", "5", "3", "5">>,
     <<"6", "5", "5", "3", "6">>, <<"r">>, <<"1", "x">>}

\* the empty element, elements without '=', elements key=value
Options ==
    {Opt("", FALSE, <<>>)}
        \cup {Opt(k, FALSE, <<>>) : k \in OptKeys}
        \cup {Opt(k, TRUE, v) : k \in OptKeys, v \in OptValues}

\* the strings tried: NULL (written as the list of no elements), and the
\* lists of up to MaxOpts elements; the empty string is the list of one
\* empty element
NullString == <<>>
OptionStrings ==
    {NullString} \cup UNION {[1..n -> Options] : n \in 1..MaxOpts}

\* the strsep loop of kfi_parse_vni_from_options from element i on, ret
\* being -EINVAL at entry: the first element with key "vni" and an '=' ends it
RECURSIVE ParseLoop(_, _)
ParseLoop(opts, i) ==
    IF i > Len(opts) THEN [ret |-> -EINVAL, written |-> FALSE, vni |-> 0]
    ELSE IF opts[i].key = "" /\ ~opts[i].eq THEN ParseLoop(opts, i + 1)
    ELSE IF ~opts[i].eq THEN ParseLoop(opts, i + 1)
    ELSE IF opts[i].key = "vni"
    THEN LET k == kstrtoul(opts[i].value) IN
         IF k.ret = 0 /\ k.val <= UINT16_MAX
         THEN [ret |-> k.ret, written |-> TRUE, vni |-> k.val]
         ELSE [ret |-> k.ret, written |-> FALSE, vni |-> 0]
    ELSE ParseLoop(opts, i + 1)

\* a call is about to be made with one of the strings
InitParse(strings, allocs) ==
    /\ parse_call \in [called : {FALSE}, options : strings, alloc_ok : allocs]
    /\ parse_ret = 0
    /\ vni_out = [written |-> FALSE, val |-> 0]

\* kfi_parse_vni_from_options(options, &vni) with vni not initialised;
\* kstrdup returns NULL for NULL and when the allocation fails
kfi_parse_vni_from_options(options, alloc_ok) ==
    /\ ~parse_call.called
    /\ parse_call.options = options
    /\ parse_call.alloc_ok = alloc_ok
    /\ parse_call' = [parse_call EXCEPT !.called = TRUE]
    /\ IF options = NullString \/ ~alloc_ok
       THEN /\ parse_ret' = -ENOMEM
            /\ vni_out' = [written |-> FALSE, val |-> 0]
       ELSE LET r == ParseLoop(options, 1) IN
            /\ parse_ret' = r.ret
            /\ vni_out' = [written |-> r.written, val |-> r.vni]
    /\ UNCHANGED <<coreVars, xlVars, progVars, sge_send, mapVars, batchVars, sq_trace, lateVars>>

(***************************************************************************)
(* The local descriptor of an SGE: kfi_do_send (kfi_ops.c).                *)
(***************************************************************************)
\* a pointer: 64 bits kept as four halves of 16 bits, highest first
\* (uintptr_t) of a u32: the upper 32 bits are zero
PtrOfU32(k) == <<0, 0, k[1], k[2]>>

\* the address kzalloc gave the struct kfi_mr object m: a kernel heap address
MrAddr(m) == <<Half - 1, Half \div 2, m, 0>>

\* kfi_mr_desc(kmr->kfi_mr) of the MR object m
MrDesc(m) == [desc_of |-> m]

\* reading kmr->kfi_mr with kmr the address of a live struct kfi_mr
DerefMr(ptr) ==
    {MrDesc(m) : m \in {n \in MrSlots : mrs[n].live /\ MrAddr(n) = ptr}}

\* reading kmr->kfi_mr through a pointer that is no struct kfi_mr: a fault,
\* or whatever lies there taken as a descriptor
WildDescs ==
    {[desc_of |-> -1]} \cup {MrDesc(m) : m \in {n \in MrSlots : mrs[n].live}}

\* the pointer kfi_do_send makes of an lkey
LkeyToMr(lkey) == PtrOfU32(lkey)

NoSgeSend ==
    [mr |-> 0, lkey |-> U32(0, 0), kmr |-> PtrOfU32(U32(0, 0)),
     outcome |-> "none", desc |-> [desc_of |-> 0], ret |-> 0]

InitSge == sge_send = NoSgeSend

\* kfi_do_send(kqp, wr) for a request of one SGE whose lkey is the lkey of
\* the live MR m; outcome and desc: what the read of kmr->kfi_mr gives when
\* kmr is no struct kfi_mr; fabric_ret: what kfi_send answers
kfi_do_send_sge(m, outcome, desc, fabric_ret) ==
    LET kmr == LkeyToMr(mrs[m].lkey) IN
    /\ mrs[m].live
    /\ outcome \in {"read", "fault"}
    /\ IF DerefMr(kmr) # {}
       THEN outcome = "read" /\ desc \in DerefMr(kmr)
       ELSE desc \in WildDescs
    /\ sge_send' =
         [mr |-> m, lkey |-> mrs[m].lkey, kmr |-> kmr, outcome |-> outcome,
          desc |-> IF outcome = "fault" THEN [desc_of |-> 0] ELSE desc,
          ret |-> IF outcome = "fault" THEN 0
                  ELSE IF fabric_ret = -KFI_EAGAIN THEN -EAGAIN ELSE fabric_ret]
    /\ UNCHANGED <<coreVars, xlVars, progVars, parseVars, mapVars, batchVars, sq_trace, lateVars>>

DoSendSge ==
    \E m \in MrSlots, outcome \in {"read", "fault"},
       desc \in WildDescs \cup {MrDesc(n) : n \in MrSlots},
       fabric_ret \in {0, -KFI_EAGAIN} :
        kfi_do_send_sge(m, outcome, desc, fabric_ret)

(***************************************************************************)
(* kfi_map_mr_sg (kfi_memory.c).                                           *)
(***************************************************************************)
\* a scatterlist entry: sg_virt and sg_dma_len
SgEntry(addr, len) == [addr |-> addr, len |-> len]

\* the lists tried: every list of up to MaxSg entries of length 0..2, and
\* lists of KFI_MAX_SGE - 1 .. KFI_MAX_SGE + MaxSg entries of length 1 with
\* one entry empty or none
SgLists ==
    UNION {[1..n -> {SgEntry(16, l) : l \in 0..2}] : n \in 0..MaxSg}
        \cup {[i \in 1..n |-> SgEntry(16, IF i = e THEN 0 ELSE 1)] :
                n \in (KFI_MAX_SGE - 1)..(KFI_MAX_SGE + MaxSg), e \in {0, 1, KFI_MAX_SGE}}

\* the test on sg_nents left out
TooManySgeNever(sg_nents) == FALSE

\* the test on sg_nents
TooManySge(sg_nents) == sg_nents > KFI_MAX_SGE

\* the for_each_sg loop from entry i on: the iovs[] filled
RECURSIVE MapIovs(_, _, _)
MapIovs(sg, i, off) ==
    IF i > Len(sg) THEN <<>>
    ELSE IF sg[i].len = 0 THEN MapIovs(sg, i + 1, off)
    ELSE <<IF i = 1 /\ off # 0
           THEN [iov_base |-> sg[i].addr + off, iov_len |-> sg[i].len - off]
           ELSE [iov_base |-> sg[i].addr, iov_len |-> sg[i].len]>>
             \o MapIovs(sg, i + 1, off)

RECURSIVE IovTotal(_)
IovTotal(iovs) ==
    IF iovs = <<>> THEN 0 ELSE Head(iovs).iov_len + IovTotal(Tail(iovs))

\* the MR as kfi_alloc_mr left it: registered without a buffer
FreshMr == [kfi_mr |-> 1, iova |-> 0, length |-> 0]

\* a call is about to be made with one of the inputs
InitMap(lists, offs, allocs, regs) ==
    /\ map_call \in [called : {FALSE}, sg : lists, sg_offset : offs,
                     alloc_ok : allocs, reg_ret : regs]
    /\ map_mr = FreshMr
    /\ map_regs = <<>>
    /\ map_ret = 0

\* kfi_map_mr_sg(mr, sg, sg_nents, sg_offset, page_size) with sg_nents the
\* length of the list; alloc_ok: kcalloc succeeds; reg_ret: what kfi_mr_reg
\* answers
kfi_map_mr_sg(sg, sg_offset, alloc_ok, reg_ret) ==
    LET iovs == MapIovs(sg, 1, sg_offset)
        mapped == Len(iovs)
    IN
    /\ ~map_call.called
    /\ map_call = [called |-> FALSE, sg |-> sg, sg_offset |-> sg_offset,
                   alloc_ok |-> alloc_ok, reg_ret |-> reg_ret]
    /\ map_call' = [map_call EXCEPT !.called = TRUE]
    /\ IF TooManySge(Len(sg))
       THEN /\ map_ret' = -EINVAL
            /\ UNCHANGED <<map_mr, map_regs>>
       ELSE IF ~alloc_ok
       THEN /\ map_ret' = -ENOMEM
            /\ UNCHANGED <<map_mr, map_regs>>
       ELSE IF mapped = 0
       THEN /\ map_ret' = 0
            /\ UNCHANGED <<map_mr, map_regs>>
       ELSE /\ map_regs' = Append(map_regs,
                                  [buf |-> iovs[1].iov_base, len |-> iovs[1].iov_len])
            /\ IF reg_ret # 0
               THEN /\ map_ret' = reg_ret
                    /\ UNCHANGED map_mr
               ELSE /\ map_ret' = mapped
                    /\ map_mr' = [kfi_mr |-> map_mr.kfi_mr + 1,
                                  iova |-> iovs[1].iov_base,
                                  length |-> IovTotal(iovs)]
    /\ UNCHANGED <<coreVars, xlVars, progVars, parseVars, sge_send, batchVars, sq_trace, lateVars>>

(***************************************************************************)
(* Opcode translation: ib_opcode_to_kfi (kfi_internal.h) followed by the   *)
(* flag chain of kfi_poll_cq.                                              *)
(***************************************************************************)
\* enum ib_wr_opcode
WrOpcodes == {"IB_WR_RDMA_WRITE", "IB_WR_RDMA_WRITE_WITH_IMM", "IB_WR_SEND",
              "IB_WR_SEND_WITH_IMM", "IB_WR_RDMA_READ", "IB_WR_ATOMIC_CMP_AND_SWP",
              "IB_WR_ATOMIC_FETCH_AND_ADD", "IB_WR_BIND_MW", "IB_WR_LSO",
              "IB_WR_SEND_WITH_INV", "IB_WR_RDMA_READ_WITH_INV", "IB_WR_LOCAL_INV",
              "IB_WR_REG_MR", "IB_WR_MASKED_ATOMIC_CMP_AND_SWP",
              "IB_WR_MASKED_ATOMIC_FETCH_AND_ADD", "IB_WR_REG_MR_INTEGRITY"}

\* flag bits the fabric sets in a completion beside the operation's own
ClassFlags == {"KFI_MSG", "KFI_RMA", "KFI_REMOTE_CQ_DATA"}

\* ib_opcode_to_kfi with the cases of SEND and RDMA_WRITE exchanged
ib_opcode_to_kfi_swapped(opcode) ==
    CASE opcode \in {"IB_WR_SEND", "IB_WR_SEND_WITH_IMM"} -> {"KFI_WRITE"}
      [] opcode \in {"IB_WR_RDMA_WRITE", "IB_WR_RDMA_WRITE_WITH_IMM"} -> {"KFI_SEND"}
      [] opcode = "IB_WR_RDMA_READ" -> {"KFI_READ"}
      [] opcode = "IB_WR_ATOMIC_CMP_AND_SWP" -> {"KFI_ATOMIC"}
      [] opcode = "IB_WR_ATOMIC_FETCH_AND_ADD" -> {"KFI_ATOMIC"}
      [] OTHER -> {}

\* ib_opcode_to_kfi(opcode): the flag bits returned, {} for 0
ib_opcode_to_kfi(opcode) ==
    CASE opcode \in {"IB_WR_SEND", "IB_WR_SEND_WITH_IMM"} -> {"KFI_SEND"}
      [] opcode \in {"IB_WR_RDMA_WRITE", "IB_WR_RDMA_WRITE_WITH_IMM"} -> {"KFI_WRITE"}
      [] opcode = "IB_WR_RDMA_READ" -> {"KFI_READ"}
      [] opcode = "IB_WR_ATOMIC_CMP_AND_SWP" -> {"KFI_ATOMIC"}
      [] opcode = "IB_WR_ATOMIC_FETCH_AND_ADD" -> {"KFI_ATOMIC"}
      [] OTHER -> {}

\* a translation is about to be made for one of the opcodes
InitRt(opcodes, extras) ==
    /\ rt_call \in [called : {FALSE}, opcode : opcodes, extra : extras]
    /\ rt_flags = {}
    /\ rt_wc = "unset"

\* the opcode is translated, the fabric completes the operation with the
\* flag bits returned and its class bits, kfi_poll_cq derives wc->opcode
OpcodeRoundTrip(opcode, extra) ==
    /\ ~rt_call.called
    /\ rt_call = [called |-> FALSE, opcode |-> opcode, extra |-> extra]
    /\ rt_call' = [rt_call EXCEPT !.called = TRUE]
    /\ rt_flags' = ib_opcode_to_kfi(opcode)
    /\ rt_wc' = FlagsToWcOpcode(ib_opcode_to_kfi(opcode) \cup extra)
    /\ UNCHANGED <<coreVars, xlVars, progVars, parseVars, sge_send, mapVars,
                   batchVars, sq_trace, devVars>>

(***************************************************************************)
(* Device discovery: kfi_get_devices (kfi_verbs_compat.c).                 *)
(***************************************************************************)
\* fabric names kfi_getinfo may list
FabricNames == {"cxi0", "cxi1"}

\* what kfi_getinfo hands back: a list of info entries, each fabric once
InfoLists ==
    {<<>>} \cup {<<n>> : n \in FabricNames}
        \cup {p \in FabricNames \X FabricNames : p[1] # p[2]}

\* how one info entry fares: kzalloc, kfi_fabric or kfi_domain fails, or none
EntryOutcomes == {"ok", "kzalloc", "kfi_fabric", "kfi_domain"}

NoDevCall == [info |-> <<>>, outcome |-> <<>>]

InitDev(calls) ==
    /\ kfi_device_list = <<>>
    /\ dev_call = NoDevCall
    /\ dev_ret = 0
    /\ dev_calls = calls

\* the creation loop from entry i on: the names list_add_tail appends
RECURSIVE DevicesAdded(_, _, _)
DevicesAdded(info, outcome, i) ==
    IF i > Len(info) THEN <<>>
    ELSE IF outcome[i] = "ok"
    THEN <<info[i]>> \o DevicesAdded(info, outcome, i + 1)
    ELSE DevicesAdded(info, outcome, i + 1)

\* kfi_get_devices(&num_devices); setup_ok: kfi_allocinfo, kfi_getinfo and
\* kcalloc succeed; info: the list kfi_getinfo hands back; outcome: how each
\* entry fares
kfi_get_devices(setup_ok, info, outcome) ==
    /\ dev_calls > 0
    /\ dev_calls' = dev_calls - 1
    /\ dev_call' = [info |-> info, outcome |-> outcome]
    /\ IF ~setup_ok \/ Len(info) = 0
       THEN /\ dev_ret' = -1
            /\ UNCHANGED kfi_device_list
       ELSE /\ kfi_device_list' =
                   kfi_device_list \o DevicesAdded(info, outcome, 1)
            /\ dev_ret' = Len(DevicesAdded(info, outcome, 1))
    /\ UNCHANGED <<coreVars, xlVars, progVars, parseVars, sge_send, mapVars,
                   batchVars, sq_trace, rtVars>>

\* kfi_verbs_compat_exit: every entry of the registry is closed and freed
kfi_verbs_compat_exit ==
    /\ kfi_device_list # <<>>
    /\ kfi_device_list' = <<>>
    /\ UNCHANGED <<dev_call, dev_ret, dev_calls>>
    /\ UNCHANGED <<coreVars, xlVars, progVars, parseVars, sge_send, mapVars,
                   batchVars, sq_trace, rtVars>>

\* the components added last, before any call on them
InitLate == InitRt({"IB_WR_SEND"}, {{}}) /\ InitDev(0)

(***************************************************************************)
(* kfi_batch_send (kfi_ops.c) and the record of send-queue submissions.    *)
(***************************************************************************)
\* no submission of kfi_post_send is recorded unless on
InitTrace(on) == sq_trace = [on |-> on, calls |-> <<>>]

\* what kfi_sendv may answer to one element
BatchAnswers == {0, -KFI_EAGAIN, -KFI_EINVAL, -KFI_EOTHER}

\* a call is about to be made with a batch of one of the counts
InitBatch(counts) ==
    /\ batch_call \in {[called |-> FALSE, count |-> n, answers |-> a] :
                          n \in counts, a \in UNION {[1..n -> BatchAnswers] : n \in counts}}
    /\ Len(batch_call.answers) = batch_call.count
    /\ batch_sent = <<>>
    /\ batch_ret = 0

\* the for loop of kfi_batch_send from element i on, sent the elements
\* accepted so far: [ret, sent]
RECURSIVE BatchLoop(_, _, _)
BatchLoop(answers, i, sent) ==
    IF i > Len(answers) THEN [ret |-> 0, sent |-> sent]
    ELSE IF answers[i] < 0 /\ answers[i] # -KFI_EAGAIN
    THEN [ret |-> answers[i], sent |-> sent]
    ELSE BatchLoop(answers, i + 1,
                   IF answers[i] = 0 THEN Append(sent, i) ELSE sent)

\* kfi_batch_send(kqp, batch); answers[i]: what kfi_sendv answers to element i
kfi_batch_send(count, answers) ==
    LET res == BatchLoop(answers, 1, <<>>) IN
    /\ ~batch_call.called
    /\ batch_call = [called |-> FALSE, count |-> count, answers |-> answers]
    /\ batch_call' = [batch_call EXCEPT !.called = TRUE]
    /\ batch_ret' = IF count = 0 THEN 0 ELSE res.ret
    /\ batch_sent' = IF count = 0 THEN <<>> ELSE res.sent
    /\ UNCHANGED <<coreVars, xlVars, progVars, parseVars, sge_send, mapVars, sq_trace, lateVars>>

\* the components below, before any call on them
InitExt ==
    /\ InitXl /\ InitProg(0) /\ InitParse({NullString}, {TRUE}) /\ InitSge
    /\ InitMap({<<>>}, {0}, {TRUE}, {0})
    /\ InitTrace(FALSE) /\ InitBatch({0})
    /\ InitLate

(***************************************************************************)
(* Specifications.                                                         *)
(***************************************************************************)
\* the thread that posts in the single-caller specifications
Poster == "t1"

\* a QP that kfi_connect_ep has brought to RTS with the default VNI
InitConnected ==
    /\ qp_state = "RTS"
    /\ auth_key = AuthKey(9)
    /\ vni_from_mount = 0
    /\ vni_configured = FALSE
    /\ av_bound = TRUE
    /\ ep_enabled = TRUE
    /\ sq_lock = "free"
    /\ mod_ret = 0
    /\ mod_to = "RTS"

\* --- the QP state machine with a caller that posts sends ---
QpChains == {<<WR("IB_WR_SEND", 1, 1, 0, 0)>>}

InitQPSpec == InitQP /\ InitPost /\ InitFabric /\ InitPoll /\ InitExt /\ InitKeyFresh
    /\ InitRes(0) /\ InitCache(CacheSize, MaxCacheCalls)

NextQP ==
    \/ ModifyQp
    \/ ConnectEp
    \/ \E v \in VNIs : SetVniFromMount(v)
    \/ \E c \in QpChains : PostBegin(Poster, c)
    \/ PostStep(Poster, FALSE)
    \/ PostUnlock(Poster)
    \/ PostReturn(Poster)

SpecQP == InitQPSpec /\ [][NextQP]_vars

\* --- the operation translator on a connected QP ---
Opcodes == {"IB_WR_SEND", "IB_WR_SEND_WITH_IMM", "IB_WR_RDMA_WRITE",
            "IB_WR_RDMA_WRITE_WITH_IMM", "IB_WR_RDMA_READ",
            "IB_WR_SEND_WITH_INV", "IB_WR_LOCAL_INV",
            "IB_WR_ATOMIC_CMP_AND_SWP"}
SgeCounts == {1, 2, KFI_MAX_SGE, KFI_MAX_SGE + 1}

\* chains of n requests; the request at position i carries wr_id 10 + i,
\* remote address 1000 + i and rkey 2000 + i
ChainsOfLen(n) ==
    {[i \in 1..n |-> WR(f[i][1], f[i][2], 10 + i, 1000 + i, 2000 + i)] :
        f \in [1..n -> Opcodes \X SgeCounts]}
OpsChains == UNION {ChainsOfLen(n) : n \in 0..MaxChain}

InitOps == InitConnected /\ InitPost /\ InitFabric /\ InitPoll /\ InitExt /\ InitKeyFresh
    /\ InitRes(0) /\ InitCache(CacheSize, MaxCacheCalls)

NextOps ==
    \/ \E c \in OpsChains : PostBegin(Poster, c)
    \/ PostStep(Poster, FALSE)
    \/ PostUnlock(Poster)
    \/ PostReturn(Poster)

SpecOps == InitOps /\ [][NextOps]_vars

\* --- post, fabric completion and poll end to end ---
WrIds == {1, 2, Half + 1}
CqOpcodes == {"IB_WR_SEND", "IB_WR_RDMA_READ"}

\* wr_ids the fabric still knows or has completed
UsedWrIds ==
    {inflight[i].req : i \in 1..Len(inflight)}
        \cup {fabric_order[i] : i \in 1..Len(fabric_order)}

\* chains of single-segment requests with fresh, distinct wr_ids
CqChains ==
    {c \in UNION {[1..n -> {WR(o, 1, w, 0, 0) : o \in CqOpcodes, w \in WrIds}] :
                    n \in 1..MaxChain} :
        /\ \A i \in 1..Len(c) : c[i].wr_id \notin UsedWrIds
        /\ \A i, j \in 1..Len(c) : c[i].wr_id = c[j].wr_id => i = j}

InitCQ == InitConnected /\ InitPost /\ InitFabric /\ InitPoll /\ InitExt /\ InitKeyFresh
    /\ InitRes(0) /\ InitCache(CacheSize, MaxCacheCalls)

NextCQ ==
    \/ \E c \in CqChains : PostBegin(Poster, c)
    \/ PostStep(Poster, TRUE)
    \/ PostUnlock(Poster)
    \/ PostReturn(Poster)
    \/ FabricComplete
    \/ PollCq

SpecCQ == InitCQ /\ [][NextCQ]_vars

\* --- the key translator under two threads ---
\* the 32-bit keys a caller may hand to lookup and unregister
IbKeyArgs == {U32(1, 1), U32(1, 2), U32(Half - 1, Half - 1), U32(0, 0)}

InitKeySpec == InitQP /\ InitPost /\ InitFabric /\ InitPoll /\ InitExt /\ InitKey
    /\ InitRes(0) /\ InitCache(CacheSize, MaxCacheCalls)

KeyStep(t) ==
    \/ \E k \in KfiKeys, alloc_ok \in BOOLEAN : KeyRegBegin(t, k, alloc_ok)
    \/ KeyRegTree(t)
    \/ KeyRegHash(t)
    \/ \E E \in IbKeyArgs : KeyUnregTree(t, E)
    \/ KeyUnregHash(t)
    \/ KeyReturn(t)
    \/ \E E \in IbKeyArgs : KeyLookupIb(t, E)
    \/ \E k \in KfiKeys : KeyLookupKfi(t, k)
    \/ KeyCleanupLock(t)
    \/ KeyCleanupErase(t)
    \/ KeyCleanupHashLock(t)
    \/ KeyCleanupHashDel(t)

NextKey == \E t \in Threads : KeyStep(t)

SpecKey == InitKeySpec /\ [][NextKey]_vars

\* the steps that carry on a call of thread t that has begun
KeyContinue(t) ==
    \/ KeyRegTree(t)
    \/ KeyRegHash(t)
    \/ KeyUnregHash(t)
    \/ KeyReturn(t)
    \/ KeyCleanupErase(t)
    \/ KeyCleanupHashLock(t)
    \/ KeyCleanupHashDel(t)

\* every thread inside a call runs, and a thread spinning on a lock that is
\* released again and again gets it (the kernel's spinlocks are queued)
SpecKeyLive == SpecKey /\ \A t \in Threads : SF_vars(KeyContinue(t))

\* --- the key translator with one caller ---
NextKeySeq == KeyStep(Poster)

SpecKeySeq == InitKeySpec /\ [][NextKeySeq]_vars

\* --- PDs, CQs, QPs and MRs created and destroyed by one caller ---
InitResSpec == InitQP /\ InitPost /\ InitFabric /\ InitPoll /\ InitExt /\ InitKeyFresh
    /\ InitRes(MaxResMrAllocs) /\ InitCache(CacheSize, MaxCacheCalls)

NextRes ==
    \/ AllocPd
    \/ DeallocPd
    \/ CreateCq
    \/ DestroyCq
    \/ CreateQp
    \/ DestroyQp
    \/ AllocMr
    \/ GetDmaMr
    \/ DeregMr

SpecRes == InitResSpec /\ [][NextRes]_vars

\* --- the MR cache on a PD that kfi_alloc_pd has returned ---
InitCachePd ==
    /\ pds = [p \in PDs |-> IF p = "pd1" THEN [live |-> TRUE, usecnt |-> 0]
                                         ELSE NoPd]
    /\ cqs = [c \in CQs |-> NoCq]
    /\ qps = [q \in QpSlots |-> NoQp]
    /\ mrs = [m \in MrSlots |-> NoMr]
    /\ fabric_mrs = {}
    /\ mr_allocs = MaxMrAllocs
    /\ res_op = "none"
    /\ res_ret = 0

InitCacheSpec == InitQP /\ InitPost /\ InitFabric /\ InitPoll /\ InitExt /\ InitKeyFresh
    /\ InitCachePd /\ InitCache(CacheSize, MaxCacheCalls)

\* one caller
NextCacheSeq == CacheStep(Poster, CacheKeys)

SpecCacheSeq == InitCacheSpec /\ [][NextCacheSeq]_vars

\* --- the MR cache with two callers ---
ConcKeys == {CKey(1, 1, 1), CKey(1, 2, 1)}

InitCacheConc == InitQP /\ InitPost /\ InitFabric /\ InitPoll /\ InitExt /\ InitKeyFresh
    /\ InitCachePd /\ InitCache(ConcCacheSize, MaxConcCalls)

NextCache == \E t \in Threads : CacheStep(t, ConcKeys)

SpecCache == InitCacheConc /\ [][NextCache]_vars

\* kfi_errno_to_ib_status on any code
InitStatus == InitQP /\ InitPost /\ InitFabric /\ InitPoll /\ InitKeyFresh
    /\ InitRes(0) /\ InitCache(CacheSize, MaxCacheCalls) /\ InitExt

NextStatus == \E e \in StatusCodes : TranslateStatus(e)

SpecStatus == InitStatus /\ [][NextStatus]_vars

\* posts, completions and polls through kfi_poll_cq and svc_kfi_poll_cq
NextDrain ==
    \/ \E c \in CqChains : PostBegin(Poster, c)
    \/ PostStep(Poster, TRUE)
    \/ PostUnlock(Poster)
    \/ PostReturn(Poster)
    \/ FabricComplete
    \/ PollCq
    \/ SvcPollCq

SpecDrain == InitCQ /\ [][NextDrain]_vars

\* the progress engine: starts, stops, the workers and the fabric
InitProgSpec == InitQP /\ InitPost /\ InitFabric /\ InitPoll /\ InitKeyFresh
    /\ InitRes(0) /\ InitCache(CacheSize, MaxCacheCalls) /\ InitXl
    /\ InitProg(MaxStarts) /\ InitParse({NullString}, {TRUE}) /\ InitSge
    /\ InitMap({<<>>}, {0}, {TRUE}, {0})
    /\ InitTrace(FALSE) /\ InitBatch({0})
    /\ InitLate

ProgressWorker ==
    \/ \E id \in PtIds :
            /\ pts[id].thread = "running"
            /\ \E r \in ProgReadOutcomes(pts[id].device) : ProgressWorkerRead(id, r)
    \/ \E id \in PtIds : ProgressWorkerHandle(id)

NextProg ==
    \/ \E d \in Devices, a, c \in BOOLEAN : kfi_progress_start(d, a, c)
    \/ \E d \in Devices : kfi_progress_stop(d)
    \/ kfi_progress_cleanup_all
    \/ \E d \in Devices : ProgFabricComplete(d)
    \/ ProgressWorker

SpecProg == InitProgSpec /\ [][NextProg]_vars

\* a running worker is scheduled again and again
SpecProgLive == SpecProg /\ WF_vars(ProgressWorker)

\* kfi_parse_vni_from_options on any option string
InitParseSpec == InitQP /\ InitPost /\ InitFabric /\ InitPoll /\ InitKeyFresh
    /\ InitRes(0) /\ InitCache(CacheSize, MaxCacheCalls) /\ InitXl
    /\ InitProg(0) /\ InitParse(OptionStrings, BOOLEAN) /\ InitSge
    /\ InitMap({<<>>}, {0}, {TRUE}, {0})
    /\ InitTrace(FALSE) /\ InitBatch({0})
    /\ InitLate

NextParse ==
    kfi_parse_vni_from_options(parse_call.options, parse_call.alloc_ok)

SpecParse == InitParseSpec /\ [][NextParse]_vars

\* MRs allocated and released, and sends that name them by lkey
NextLkey ==
    \/ AllocPd
    \/ DeallocPd
    \/ AllocMr
    \/ GetDmaMr
    \/ DeregMr
    \/ DoSendSge

SpecLkey == InitResSpec /\ [][NextLkey]_vars

\* kfi_map_mr_sg on any SG list
InitMapSpec == InitQP /\ InitPost /\ InitFabric /\ InitPoll /\ InitKeyFresh
    /\ InitRes(0) /\ InitCache(CacheSize, MaxCacheCalls) /\ InitXl
    /\ InitProg(0) /\ InitParse({NullString}, {TRUE}) /\ InitSge
    /\ InitMap(SgLists, {0, 1}, BOOLEAN, {0, -KFI_EINVAL})
    /\ InitTrace(FALSE) /\ InitBatch({0})
    /\ InitLate

NextMap ==
    kfi_map_mr_sg(map_call.sg, map_call.sg_offset, map_call.alloc_ok,
                  map_call.reg_ret)

SpecMap == InitMapSpec /\ [][NextMap]_vars

\* kfi_batch_send on any batch
InitBatchSpec == InitQP /\ InitPost /\ InitFabric /\ InitPoll /\ InitKeyFresh
    /\ InitRes(0) /\ InitCache(CacheSize, MaxCacheCalls) /\ InitXl
    /\ InitProg(0) /\ InitParse({NullString}, {TRUE}) /\ InitSge
    /\ InitMap({<<>>}, {0}, {TRUE}, {0})
    /\ InitTrace(FALSE) /\ InitBatch(0..MaxBatch)
    /\ InitLate

NextBatch == kfi_batch_send(batch_call.count, batch_call.answers)

SpecBatch == InitBatchSpec /\ [][NextBatch]_vars

\* two threads post chains on one connected QP
SqChains == {<<WR("IB_WR_SEND", 1, 11, 0, 0)>>,
             <<WR("IB_WR_SEND", 1, 11, 0, 0), WR("IB_WR_RDMA_WRITE", 2, 12, 1002, 2002)>>,
             <<WR("IB_WR_SEND", KFI_MAX_SGE + 1, 11, 0, 0)>>}

InitSq == InitConnected /\ InitPost /\ InitFabric /\ InitPoll /\ InitKeyFresh
    /\ InitRes(0) /\ InitCache(CacheSize, MaxCacheCalls) /\ InitXl
    /\ InitProg(0) /\ InitParse({NullString}, {TRUE}) /\ InitSge
    /\ InitMap({<<>>}, {0}, {TRUE}, {0})
    /\ InitTrace(TRUE) /\ InitBatch({0})
    /\ InitLate

NextSq ==
    \/ \E t \in Threads, c \in SqChains :
           Len(sq_trace.calls) < MaxSubmissions /\ PostBegin(t, c)
    \/ \E t \in Threads : PostStep(t, FALSE)
    \/ \E t \in Threads : PostUnlock(t)
    \/ \E t \in Threads : PostReturn(t)

SpecSq == InitSq /\ [][NextSq]_vars

\* the opcode translation on any opcode
InitRtSpec == InitQP /\ InitPost /\ InitFabric /\ InitPoll /\ InitKeyFresh
    /\ InitRes(0) /\ InitCache(CacheSize, MaxCacheCalls) /\ InitXl
    /\ InitProg(0) /\ InitParse({NullString}, {TRUE}) /\ InitSge
    /\ InitMap({<<>>}, {0}, {TRUE}, {0})
    /\ InitTrace(FALSE) /\ InitBatch({0})
    /\ InitRt(WrOpcodes, SUBSET ClassFlags) /\ InitDev(0)

NextRt == OpcodeRoundTrip(rt_call.opcode, rt_call.extra)

SpecRt == InitRtSpec /\ [][NextRt]_vars

\* device discovery, any number of times
InitDevSpec == InitQP /\ InitPost /\ InitFabric /\ InitPoll /\ InitKeyFresh
    /\ InitRes(0) /\ InitCache(CacheSize, MaxCacheCalls) /\ InitXl
    /\ InitProg(0) /\ InitParse({NullString}, {TRUE}) /\ InitSge
    /\ InitMap({<<>>}, {0}, {TRUE}, {0})
    /\ InitTrace(FALSE) /\ InitBatch({0})
    /\ InitRt({"IB_WR_SEND"}, {{}}) /\ InitDev(MaxDiscover)

NextDev ==
    \/ \E ok \in BOOLEAN, info \in InfoLists :
          \E outcome \in [1..Len(info) -> EntryOutcomes] :
              kfi_get_devices(ok, info, outcome)
    \/ kfi_verbs_compat_exit

SpecDev == InitDevSpec /\ [][NextDev]_vars

\* --- the MR cache after long use, with two callers ---
\* the reference counts an entry can show between calls: 1 for an entry that
\* was inserted and never hit, 0 for one that 2^32 - 1 hits have wrapped
\* (atomic_inc at line 484 on an atomic_t, which kfi_mr_cache_put never
\* decrements)
WrappedRefcounts == {0, 1}
\* the MR kfi_get_dma_mr made in slot m with the n-th key, on pd1
CachedMr(m, n) ==
    [live |-> TRUE, pd |-> "pd1", usecnt |-> 1, lkey |-> U32(1, n),
     rkey |-> U32(1, n), kfi_key |-> MrNativeKey(m), cache_entry |-> 0]
\* the key pair kfi_key_register made for that MR
CachedKey(m, n) == [ib_key |-> U32(1, n), kfi_key |-> MrNativeKey(m)]

\* after kfi_mr_cache_get(cache, 1, 1, 1, pd1) and kfi_mr_cache_get(cache, 1,
\* 2, 1, pd1) missed and inserted entries 1 and 2, followed by hits only
InitCacheUsed ==
    /\ pds = [p \in PDs |-> IF p = "pd1" THEN [live |-> TRUE, usecnt |-> 2]
                                         ELSE NoPd]
    /\ cqs = [c \in CQs |-> NoCq]
    /\ qps = [q \in QpSlots |-> NoQp]
    /\ mrs = [m \in MrSlots |-> IF m <= 2 THEN CachedMr(m, m) ELSE NoMr]
    /\ fabric_mrs = {MrNativeKey(1), MrNativeKey(2)}
    /\ mr_allocs = MaxResMrAllocs
    /\ res_op = "kfi_get_dma_mr"
    /\ res_ret = 0
    /\ next_ib_key = U32(1, 2)
    /\ ib_key_tree = {CachedKey(1, 1), CachedKey(2, 2)}
    /\ kfi_key_hash = <<CachedKey(2, 2), CachedKey(1, 1)>>
    /\ live = {}
    /\ KeyIdle
    /\ cache_root = TNode(1, FALSE, Nil, TNode(2, TRUE, Nil, Nil))
    /\ cache_lru \in {<<1, 2>>, <<2, 1>>}
    /\ \E r1 \in WrappedRefcounts, r2 \in WrappedRefcounts :
          centries = [m \in MrSlots |->
                         IF m = 1 THEN CEntry(CKey(1, 1, 1), 1, r1)
                         ELSE IF m = 2 THEN CEntry(CKey(1, 2, 1), 2, r2)
                         ELSE NoCEntry]
    /\ current_entries = 2
    /\ max_entries = CacheSize
    /\ hits = 0
    /\ misses = 2
    /\ cpc = [t \in Threads |-> "idle"]
    /\ cop = [t \in Threads |-> IdleCacheOp]
    /\ cprev = [t \in Threads |-> IdleCacheOp]
    /\ held = [m \in MrSlots |-> IF m <= 2 THEN 1 ELSE 0]
    /\ ccalls = MaxConcCalls

InitCacheUsedSpec == InitQP /\ InitPost /\ InitFabric /\ InitPoll /\ InitExt
    /\ InitCacheUsed

SpecCacheUsed == InitCacheUsedSpec /\ [][NextCache]_vars

\* --- kfi_progress_stop in its steps, next to the workers ---
\* the driver kfi_progress_stop is waiting for in kthread_stop, 0 when no
\* stop is in progress
Joining ==
    IF \E id \in PtIds : pts[id].should_stop = 1 /\ ~pts[id].freed
    THEN CHOOSE id \in PtIds : pts[id].should_stop = 1 /\ ~pts[id].freed
    ELSE 0

\* kfi_progress_stop(device) up to its wait in kthread_stop (lines 104-107):
\* the scan for the device's slot and atomic_set(&should_stop, 1)
ProgressStopBegin(d) ==
    LET s == StopScan(d, 1) IN
    /\ prog_fault = "none"
    /\ Joining = 0
    /\ prog_op' = [fn |-> "kfi_progress_stop", device |-> d, ret |-> 0]
    /\ IF s.fault # "none"
       THEN /\ prog_fault' = s.fault
            /\ UNCHANGED pts
       ELSE IF s.slot = 0
       THEN UNCHANGED <<pts, prog_fault>>
       ELSE /\ pts' = [pts EXCEPT ![progress_threads[s.slot]].should_stop = 1]
            /\ UNCHANGED prog_fault
    /\ UNCHANGED <<progress_threads, num_progress_threads, pt_allocs,
                   default_cq, produced, prog_read, delivered>>
    /\ UNCHANGED <<coreVars, xlVars, parseVars, sge_send, mapVars, batchVars, sq_trace, lateVars>>

\* kfi_progress_worker: a while test that reads should_stop != 0: the loop
\* is left and the thread function returns (lines 33, 56-57)
ProgressWorkerExit(id) ==
    /\ pts[id].thread = "running"
    /\ pts[id].pc = "loop"
    /\ pts[id].should_stop # 0
    /\ pts' = [pts EXCEPT ![id].thread = "exited"]
    /\ UNCHANGED <<progress_threads, num_progress_threads, pt_allocs, default_cq,
                   produced, prog_read, delivered, prog_fault, prog_op>>
    /\ UNCHANGED <<coreVars, xlVars, parseVars, sge_send, mapVars, batchVars, sq_trace, lateVars>>

\* kfi_progress_stop from the return of kthread_stop on (lines 107-111):
\* kfree(pt), the slot set to NULL, return
ProgressStopJoin ==
    LET id == Joining IN
    /\ id # 0
    /\ pts[id].thread = "exited"
    /\ pts' = [pts EXCEPT ![id].freed = TRUE]
    /\ progress_threads' = [i \in 1..MAX_DEVICES |->
                               IF progress_threads[i] = id THEN 0
                               ELSE progress_threads[i]]
    /\ UNCHANGED <<num_progress_threads, pt_allocs, default_cq, produced,
                   prog_read, delivered, prog_fault, prog_op>>
    /\ UNCHANGED <<coreVars, xlVars, parseVars, sge_send, mapVars, batchVars, sq_trace, lateVars>>

\* the steps of one worker thread
ProgressWorkerOf(id) ==
    \/ /\ pts[id].thread = "running"
       /\ \E r \in ProgReadOutcomes(pts[id].device) : ProgressWorkerRead(id, r)
    \/ ProgressWorkerHandle(id)
    \/ ProgressWorkerExit(id)

NextStop ==
    \/ \E d \in Devices, a, c \in BOOLEAN : Joining = 0 /\ kfi_progress_start(d, a, c)
    \/ \E d \in Devices : ProgressStopBegin(d)
    \/ ProgressStopJoin
    \/ \E d \in Devices : ProgFabricComplete(d)
    \/ \E id \in PtIds : ProgressWorkerOf(id)

SpecStop == InitProgSpec /\ [][NextStop]_vars

\* every runnable worker thread is scheduled, and the caller woken by the
\* exit of the thread it waits for runs on
SpecStopLive ==
    /\ SpecStop
    /\ \A id \in PtIds : WF_vars(ProgressWorkerOf(id))
    /\ WF_vars(ProgressStopJoin)

(***************************************************************************)
(* Properties of the QP state machine (SpecQP).                            *)
(***************************************************************************)
ListedTransitions ==
    {<<"RESET", "INIT">>, <<"INIT", "RTR">>, <<"RTR", "RTS">>}
        \cup {<<from, "ERR">> : from \in QPStates}

\* C1: every change of the QP's state is RESET->INIT, INIT->RTR, RTR->RTS or
\* (any state)->ERR; a call asking for any other transition leaves the state
\* as it is.
C1_OnlyListedTransitions ==
    [][qp_state' # qp_state => <<qp_state, qp_state'>> \in ListedTransitions]_vars

\* C2: a kfi_post_send that entered with the QP in ERR returns an error and
\* has made no fabric call.
C2_ErrQpRejectsPosts ==
    pc[Poster] = "done" /\ entry_state[Poster] = "ERR" =>
        /\ ret[Poster] # 0
        /\ \A i \in 1..Len(steps[Poster]) : ~steps[Poster][i].called

(***************************************************************************)
(* Properties of the operation translator (SpecOps).                       *)
(***************************************************************************)
\* more than 16 SGEs or an opcode the translator has no case for
Malformed(wr) == wr.num_sge > KFI_MAX_SGE \/ wr.opcode \notin HandledOpcodes

\* the position of the first malformed request of a chain, 0 when there is none
FirstMalformed(c) ==
    IF \E k \in 1..Len(c) : Malformed(c[k])
    THEN CHOOSE k \in 1..Len(c) :
            Malformed(c[k]) /\ \A j \in 1..(k - 1) : ~Malformed(c[j])
    ELSE 0

\* the fabric refused (try again, or a hard error) the call of step i
Refused(s, i) == s[i].called /\ s[i].res # 0

\* C3 as stated: when the k-th request is the first malformed one, the call
\* returns an error, *bad_wr is the k-th request, requests 1..k-1 were each
\* submitted once in chain order and no fabric call was made for k..n.
C3_FirstMalformedReported ==
    LET c == chain[Poster]
        s == steps[Poster]
        k == FirstMalformed(c)
    IN pc[Poster] = "done" /\ k # 0 =>
        /\ ret[Poster] # 0
        /\ bad[Poster] = k
        /\ Len(s) = k
        /\ \A i \in 1..Len(s) : s[i].idx = i /\ (s[i].called <=> i < k)

\* C3 amended: when the k-th request is the first malformed one, no fabric
\* call is ever made for requests k..n and each earlier request is submitted
\* at most once, in chain order; the call returns an error; if the fabric
\* accepted every one of 1..k-1, each of them was submitted exactly once and
\* *bad_wr is the k-th request; if the fabric refused request j < k, the call
\* stopped there, *bad_wr is the j-th request and nothing after j was
\* submitted.
C3_FirstMalformedOrRefused ==
    LET c == chain[Poster]
        s == steps[Poster]
        k == FirstMalformed(c)
    IN k # 0 =>
        /\ \A i \in 1..Len(s) : s[i].idx = i /\ (s[i].called <=> i < k)
        /\ Len(s) <= k
        /\ pc[Poster] = "done" => ret[Poster] # 0
        /\ pc[Poster] = "done" /\ (\A i \in 1..Len(s) : ~Refused(s, i)) =>
               bad[Poster] = k /\ Len(s) = k
        /\ \A j \in 1..Len(s) :
               pc[Poster] = "done" /\ Refused(s, j) =>
                   bad[Poster] = j /\ Len(s) = j

\* a chain whose second request is the first malformed one has returned:
\* the first was accepted by the fabric, the second is reported
C3_Witness ==
    /\ pc[Poster] = "done"
    /\ FirstMalformed(chain[Poster]) = 2
    /\ Len(steps[Poster]) = 2
    /\ steps[Poster][1].called /\ steps[Poster][1].res = 0
    /\ bad[Poster] = 2

\* C4: when the fabric answers "try again" to the submission of the k-th
\* request, kfi_post_send stops there: that call is the last fabric call it
\* makes, the request was submitted once, the return value is -EAGAIN and
\* *bad_wr is the k-th request.
C4_EagainStopsChain ==
    LET s == steps[Poster] IN
    \A i \in 1..Len(s) :
        s[i].called /\ s[i].res = -KFI_EAGAIN =>
            /\ i = Len(s)
            /\ pc[Poster] \in {"out_unlock", "done"}
            /\ ret[Poster] = -EAGAIN
            /\ bad[Poster] = s[i].idx
            /\ \A j \in 1..(i - 1) : s[j].idx < s[i].idx

\* the fabric answered "try again" to the first of two requests and the call
\* has returned
C4_Witness ==
    /\ pc[Poster] = "done"
    /\ Len(chain[Poster]) = 2
    /\ Len(steps[Poster]) = 1
    /\ steps[Poster][1].called
    /\ steps[Poster][1].res = -KFI_EAGAIN

\* the mapping the description gives: the fabric operation for a request
SendOpcodes == {"IB_WR_SEND", "IB_WR_SEND_WITH_IMM", "IB_WR_SEND_WITH_INV"}
WriteOpcodes == {"IB_WR_RDMA_WRITE", "IB_WR_RDMA_WRITE_WITH_IMM"}
ReadOpcodes == {"IB_WR_RDMA_READ"}
DescribedOp(wr) ==
    CASE wr.opcode \in SendOpcodes ->
             IF wr.num_sge = 1 THEN "kfi_send" ELSE "kfi_sendv"
      [] wr.opcode \in WriteOpcodes ->
             IF wr.num_sge = 1 THEN "kfi_write" ELSE "kfi_writev"
      [] wr.opcode \in ReadOpcodes ->
             IF wr.num_sge = 1 THEN "kfi_read" ELSE "kfi_readv"
      [] OTHER -> "none"

\* C5: each processed request is mapped by opcode and SGE count: SEND,
\* SEND_WITH_IMM and SEND_WITH_INV to send/sendv, RDMA_WRITE(_WITH_IMM) to
\* write/writev with the request's remote address and rkey, RDMA_READ to
\* read/readv with them; more than 16 SGEs is refused with -EINVAL and every
\* other opcode with -EOPNOTSUPP, without a fabric call.
C5_OpcodeMapping ==
    LET c == chain[Poster]
        s == steps[Poster]
    IN \A i \in 1..Len(s) :
        LET wr == c[s[i].idx] IN
        IF DescribedOp(wr) = "none"
        THEN ~s[i].called /\ i = Len(s) /\ ret[Poster] = -EOPNOTSUPP
        ELSE IF wr.num_sge > KFI_MAX_SGE
        THEN ~s[i].called /\ i = Len(s) /\ ret[Poster] = -EINVAL
        ELSE /\ s[i].called
             /\ s[i].fop.op = DescribedOp(wr)
             /\ s[i].fop.count = wr.num_sge
             /\ wr.opcode \in WriteOpcodes \cup ReadOpcodes =>
                    /\ s[i].fop.remote_addr = wr.remote_addr
                    /\ s[i].fop.rkey = wr.rkey

(***************************************************************************)
(* Properties of post, completion and poll end to end (SpecCQ).            *)
(***************************************************************************)
\* C6: the work completions kfi_poll_cq has returned, followed by the
\* entries still on the CQ, are the requests in the order the fabric queued
\* their completions, each once and each under the wr_id it was posted
\* with; the entries the last call wrote are the tail of what was returned;
\* every operation the fabric holds carries its request's wr_id as context.
C6_WrIdAndOrderPreserved ==
    /\ polled \o [i \in 1..Len(cq) |-> cq[i].req] = fabric_order
    /\ \A i \in 1..Len(cq) : ContextToWrId(cq[i].op_context) = cq[i].req
    /\ \A i \in 1..Len(inflight) : inflight[i].ctx = inflight[i].req
    /\ Len(wc) <= Len(polled)
    /\ \A i \in 1..Len(wc) : wc[i].wr_id = polled[Len(polled) - Len(wc) + i]

\* one kfi_poll_cq call returned two completions, the first for the request
\* with the large wr_id, and the fabric had queued them in that order
C6_Witness ==
    /\ poll_ret = 2
    /\ Len(wc) = 2
    /\ wc[1].wr_id = Half + 1
    /\ wc[2].wr_id = 1
    /\ Len(fabric_order) >= 2
    /\ fabric_order[Len(polled) - 1] = Half + 1

(***************************************************************************)
(* Properties of the key translator (SpecKeySeq, SpecKey).                 *)
(***************************************************************************)
\* no critical section is open: a lookup started now runs at once
LocksFree == ib_key_lock = "free" /\ kfi_key_lock = "free"

\* C7: for every pair (k, E) a register call returned and no unregister has
\* been given, kfi_key_lookup_ib(E) returns k and kfi_key_lookup_kfi(k)
\* returns E.
C7_RegisteredPairsLookUp ==
    LocksFree =>
        \A p \in live :
            /\ kfi_key_lookup_ib(p.ib_key) = [ret |-> 0, out |-> p.kfi_key]
            /\ kfi_key_lookup_kfi(p.kfi_key) = [ret |-> 0, out |-> p.ib_key]

\* C8: the external keys of the registered entries are pairwise distinct and
\* each is at least 0x10000.
C8_KeysDistinctAndHigh ==
    /\ \A e \in ib_key_tree : ~U32Less(e.ib_key, FirstIbKey)
    /\ \A e, f \in ib_key_tree : e.ib_key = f.ib_key => e = f

\* C9: when kfi_key_unregister(E) returns, kfi_key_lookup_ib(E) is not-found
\* and the native key E was mapped to is not found by kfi_key_lookup_kfi;
\* every other pair a register call returned keeps its mapping; a call that
\* finds no entry for E changes neither structure.
C9_UnregisterRemoves ==
    /\ [](\A t \in Threads :
            kpc[t] = "ret" /\ kop[t].op = "unregister" /\ LocksFree =>
                /\ kfi_key_lookup_ib(kop[t].ib_key).ret = -ENOENT
                /\ kop[t].found =>
                       kfi_key_lookup_kfi(kop[t].kfi_key).ret = -ENOENT
                /\ \A p \in live :
                       /\ kfi_key_lookup_ib(p.ib_key).out = p.kfi_key
                       /\ kfi_key_lookup_kfi(p.kfi_key).out = p.ib_key)
    /\ [][\A t \in Threads :
            kpc[t] = "idle" /\ kpc'[t] = "ret" /\ kop'[t].op = "unregister"
                /\ ~kop'[t].found =>
                    UNCHANGED <<ib_key_tree, kfi_key_hash>>]_vars

\* C10: the entries linked into the tree are the entries linked into the
\* hash.
C10_TreeEqualsHash ==
    ib_key_tree = {kfi_key_hash[i] : i \in 1..Len(kfi_key_hash)}

(***************************************************************************)
(* VNI resolution on the way to INIT (SpecQP).                             *)
(***************************************************************************)
\* C19: a kfi_modify_qp to INIT on a QP in RESET that has no mount VNI, when
\* the default-VNI query fails, returns -EACCES, leaves the QP in RESET and
\* leaves no auth key attached.
C19_NoVniSourceDenied ==
    [][\A mask_av \in BOOLEAN, av_ret \in SetupAvAnswers, en_ret \in EnableAnswers :
          (/\ qp_state = "RESET"
           /\ vni_from_mount = 0
           /\ kfi_modify_qp("INIT", TRUE, mask_av, TRUE,
                            [ok |-> FALSE, vni |-> 0], av_ret, en_ret))
          => /\ mod_ret' = -EACCES
             /\ qp_state' = "RESET"
             /\ auth_key' = NoAuthKey]_vars

C19_Witness ==
    /\ mod_to = "INIT"
    /\ mod_ret = -EACCES
    /\ qp_state = "RESET"
    /\ vni_from_mount = 0
    /\ auth_key = NoAuthKey

\* C20: after a kfi_modify_qp that took the QP from RESET to INIT, the auth
\* key holds the mount VNI whenever one was configured (0 included) and the
\* provider default only when none was configured.
C20_MountVniHasPriority ==
    [][\A mask_av \in BOOLEAN, alloc_ok \in BOOLEAN, dflt \in DefaultVniAnswers,
          av_ret \in SetupAvAnswers, en_ret \in EnableAnswers :
          (/\ qp_state = "RESET"
           /\ kfi_modify_qp("INIT", TRUE, mask_av, alloc_ok, dflt, av_ret, en_ret)
           /\ mod_ret' = 0)
          => /\ auth_key'.present
             /\ auth_key'.vni = IF vni_configured THEN vni_from_mount
                                ELSE dflt.vni]_vars

LiveQpsOn(p) == {q \in QpSlots : qps[q].live /\ qps[q].pd = p}
LiveMrsOn(p) == {m \in MrSlots : mrs[m].live /\ mrs[m].pd = p}

\* C17: kfi_dealloc_pd returns -EBUSY and leaves the PD as it is whenever a
\* QP or an MR created on the PD is still live, and returns 0 and frees the
\* PD when none is.
C17_PdBusyWhileUsed ==
    [][\A p \in PDs :
          (pds[p].live /\ kfi_dealloc_pd(p)) =>
              IF Cardinality(LiveQpsOn(p)) + Cardinality(LiveMrsOn(p)) > 0
              THEN res_ret' = -EBUSY /\ pds' = pds
              ELSE res_ret' = 0 /\ ~pds'[p].live]_vars

C17_Witness ==
    /\ res_op = "kfi_dealloc_pd"
    /\ res_ret = -EBUSY
    /\ \E p \in PDs :
          /\ pds[p].live
          /\ LiveMrsOn(p) # {}
          /\ LiveQpsOn(p) = {}
          /\ \A o \in PDs \ {p} : ~pds[o].live

\* the (live QP, direction) bindings of a CQ
CqBindings(c) ==
    Cardinality({q \in QpSlots : qps[q].live /\ qps[q].send_cq = c})
    + Cardinality({q \in QpSlots : qps[q].live /\ qps[q].recv_cq = c})

\* C18: the usage counter of every CQ equals the number of (live QP,
\* direction) bindings to it, a QP that uses the CQ for send and receive
\* counting twice; kfi_destroy_cq returns -EBUSY exactly when the counter is
\* not zero and 0 otherwise.
C18_CqCountsBindings ==
    /\ [](\A c \in CQs : cqs[c].live => cqs[c].usecnt = CqBindings(c))
    /\ [][\A c \in CQs :
            (cqs[c].live /\ kfi_destroy_cq(c)) =>
                IF cqs[c].usecnt # 0
                THEN res_ret' = -EBUSY /\ cqs' = cqs
                ELSE res_ret' = 0 /\ ~cqs'[c].live]_vars

C18_Witness ==
    /\ res_op = "kfi_destroy_cq"
    /\ res_ret = -EBUSY
    /\ \E c \in CQs, q \in QpSlots :
          /\ qps[q].live
          /\ qps[q].send_cq = c
          /\ qps[q].recv_cq = c
          /\ cqs[c].usecnt = 2
          /\ \A o \in CQs \ {c} : ~cqs[o].live

(***************************************************************************)
(* Properties of the MR cache (SpecCacheSeq, SpecCache).                   *)
(***************************************************************************)
\* C11: two consecutive successful kfi_mr_cache_get calls with the same
\* (vaddr, len, access), the first made when the cache holds no entry for
\* the tuple, return the same MR, raise misses by one and hits by one, and
\* leave exactly one entry for the tuple.
C11_SecondGetHits ==
    LET c == cop[Poster]
        b == cprev[Poster]
    IN (/\ cpc[Poster] = "idle"
        /\ b.op = "get" /\ b.ret = 0 /\ b.mr # 0 /\ ~b.present0
        /\ c.op = "get" /\ c.ret = 0 /\ c.mr # 0
        /\ c.key = b.key)
       => /\ c.mr = b.mr
          /\ misses = b.misses0 + 1
          /\ hits = b.hits0 + 1
          /\ Cardinality(EntriesFor(c.key)) = 1

\* C12: between calls, the reference count of every cached entry equals the
\* number of gets that returned its MR minus the number of puts of that MR,
\* so it is zero after a balanced sequence.
C12_RefcountBalanced ==
    cpc[Poster] = "idle" =>
        \A i \in LruIds : centries[i].refcount = held[centries[i].mr]

C14_LruEvictionKeepsCapacity ==
    [][(\A m \in MrSlots : held[m] = 0) =>
          /\ current_entries' <= max_entries
          /\ (cpc[Poster] = "get_insert" /\ current_entries >= max_entries)
                => cache_lru' = SubSeq(cache_lru, 1, Len(cache_lru) - 1)]_vars

C30_StatusTranslationFixed ==
    xl_out # "unset" =>
        /\ xl_out \in WcStatuses
        /\ xl_out =
            (IF xl_in = 0 THEN "IB_WC_SUCCESS"
             ELSE IF xl_in = -KFI_ETRUNC THEN "IB_WC_LOC_LEN_ERR"
             ELSE IF xl_in = -KFI_EACCES THEN "IB_WC_LOC_PROT_ERR"
             ELSE IF xl_in = -KFI_ECANCELED THEN "IB_WC_WR_FLUSH_ERR"
             ELSE "IB_WC_GENERAL_ERR")

\* the unknown value of the unit test has been translated
C30_Witness ==
    /\ xl_in = -9999
    /\ xl_out = "IB_WC_GENERAL_ERR"

(***************************************************************************)
(* Properties of the completion path (SpecCQ, SpecDrain).                  *)
(***************************************************************************)
\* the last call was kfi_poll_cq and kfi_cq_read failed with a code other
\* than the transient one
PollReadFailed ==
    /\ poll_call.fn = "kfi_poll_cq"
    /\ poll_call.read_ret < 0
    /\ poll_call.read_ret # -KFI_EAGAIN

\* the one completion of the error path: wr_id is the entry's context, status
\* the translation of its error code, vendor_err its provider error
ErrorCompletionOf(e) ==
    /\ poll_ret = 1
    /\ Len(wc) = 1
    /\ wc[1].wr_id = e.op_context
    /\ wc[1].status = kfi_errno_to_ib_status(e.err)
    /\ wc[1].vendor_err = e.prov_errno

\* what kfi_poll_cq does whatever kfi_cq_read answers: never more than
\* num_entries completions, none on the transient code
PollBounded ==
    poll_call.fn = "kfi_poll_cq" =>
        /\ poll_ret >= 0
        /\ poll_ret <= poll_call.num_entries
        /\ Len(wc) = poll_ret
        /\ poll_call.read_ret = -KFI_EAGAIN => poll_ret = 0 /\ wc = <<>>

DrainHead(num_entries) == SubSeq(cq, 1, Min(num_entries, Len(cq)))

\* among them are a successful entry and an error entry
MixedDrain(num_entries) ==
    \E i, j \in 1..Len(DrainHead(num_entries)) :
        /\ DrainHead(num_entries)[i].err = 0
        /\ DrainHead(num_entries)[j].err # 0

\* a poll of num_entries through either function, kfi_cq_read failing only
\* on the error entry at the head of the queue
DrainCall(num_entries) ==
    \E r \in CqReadOutcomes(num_entries) :
        /\ r \in CqReadErrors => Head(cq).err # 0
        /\ \/ kfi_poll_cq(num_entries, r)
           \/ svc_kfi_poll_cq(TRUE, num_entries, r)

\* C25: a drain that meets both successful entries and an error entry
\* returns the error rendered as a work completion together with the
\* successful completions of that drain.
C25_ErrorReturnedWithSuccesses ==
    [][\A n \in 1..MaxPoll :
        MixedDrain(n) /\ DrainCall(n) =>
            /\ \E k \in 1..Len(wc') : wc'[k].status # "IB_WC_SUCCESS"
            /\ \E k \in 1..Len(wc') : wc'[k].status = "IB_WC_SUCCESS"]_vars

(***************************************************************************)
(* Properties of the progress engine (SpecProg, SpecProgLive).             *)
(***************************************************************************)
\* C22: every batch of completions a progress worker has read from a default
\* CQ is eventually handed to the CQ's notification callback, in the order
\* read.  The formula asks for it only as long as a worker is running.
C22_ReadBatchesDelivered ==
    \A n \in 1..MaxProgEntries :
        (Len(prog_read) >= n) ~>
            \/ Len(delivered) >= n /\ delivered[n] = prog_read[n]
            \/ \A id \in PtIds : pts[id].thread # "running"

\* C23: kfi_progress_stop and kfi_progress_cleanup_all, in any order and any
\* number of times, never read through a cleared or freed slot of
\* progress_threads[] and never stop a thread twice.
C23_StopIdempotent ==
    /\ prog_fault = "none"
    /\ \A id \in PtIds : pts[id].thread # "stopped_twice"

(***************************************************************************)
(* Properties of the VNI option parser (SpecParse).                        *)
(***************************************************************************)
\* the string of the last call has an element vni=N, N decimal, N <= 65535
HasValidVni(opts, n) ==
    \E i \in 1..Len(opts) :
        /\ opts[i].key = "vni" /\ opts[i].eq
        /\ kstrtoul(opts[i].value).ret = 0
        /\ kstrtoul(opts[i].value).val = n
        /\ n <= UINT16_MAX

\* C21: kfi_parse_vni_from_options returns 0 with *vni_out = N exactly when
\* the option list has an element vni=N with 0 <= N <= 65535; for NULL, the
\* empty string, a list without vni, vni=N with N > 65535 or N not a number
\* it returns -EINVAL.
C21_ParseVni ==
    parse_call.called /\ parse_call.alloc_ok =>
        LET o == parse_call.options IN
        IF \E i \in 1..Len(o) : HasValidVni(o, kstrtoul(o[i].value).val)
        THEN parse_ret = 0 /\ vni_out.written /\ HasValidVni(o, vni_out.val)
        ELSE parse_ret = -EINVAL

(***************************************************************************)
(* Properties of the SGE descriptor (SpecLkey).                            *)
(***************************************************************************)
\* C28: for an SGE whose lkey is the key MR allocation returned for a live
\* MR, the local descriptor passed to the fabric is the descriptor of that MR.
C28_LkeyGivesMrDescriptor ==
    sge_send.mr # 0 =>
        /\ sge_send.outcome = "read"
        /\ sge_send.desc = MrDesc(sge_send.mr)

(***************************************************************************)
(* Properties of kfi_map_mr_sg (SpecMap).                                  *)
(***************************************************************************)
\* entries of the list with a non-zero length
NonEmptySg(sg) == Cardinality({i \in 1..Len(sg) : sg[i].len # 0})

\* the call left the MR as it was and made no fabric registration call
MapMrUntouched == map_mr = FreshMr /\ map_regs = <<>>

\* C29: kfi_map_mr_sg with more than KFI_MAX_SGE entries returns -EINVAL and
\* leaves the MR unchanged (fabric handle, iova, length, no registration
\* call); with at most KFI_MAX_SGE entries it returns the number of non-empty
\* segments.
C29_MapSgLimit ==
    map_call.called =>
        IF Len(map_call.sg) > KFI_MAX_SGE
        THEN map_ret = -EINVAL /\ MapMrUntouched
        ELSE map_ret = NonEmptySg(map_call.sg)

\* C29, amended: with at most KFI_MAX_SGE entries it returns the number of
\* non-empty segments unless kcalloc fails (-ENOMEM, MR unchanged) or
\* kfi_mr_reg fails (its error code, iova and length unchanged).
C29_MapSgLimitOrError ==
    map_call.called =>
        IF Len(map_call.sg) > KFI_MAX_SGE
        THEN map_ret = -EINVAL /\ MapMrUntouched
        ELSE IF ~map_call.alloc_ok
        THEN map_ret = -ENOMEM /\ MapMrUntouched
        ELSE IF NonEmptySg(map_call.sg) # 0 /\ map_call.reg_ret # 0
        THEN /\ map_ret = map_call.reg_ret
             /\ map_mr.iova = FreshMr.iova /\ map_mr.length = FreshMr.length
        ELSE map_ret = NonEmptySg(map_call.sg)

\* a list of 17 entries was refused and the MR is as it was
C29_Witness ==
    /\ map_call.called
    /\ Len(map_call.sg) = KFI_MAX_SGE + 1
    /\ map_ret = -EINVAL
    /\ MapMrUntouched

(***************************************************************************)
(* Properties of concurrent kfi_post_send calls (SpecSq).                  *)
(***************************************************************************)
\* C26: with several threads in kfi_post_send on one QP the fabric receives
\* the submissions of each chain contiguously and in chain order: a request
\* that is not the first of its chain is submitted right after its
\* predecessor in the same chain.
C26_ChainsContiguous ==
    \A j \in 1..(Len(sq_trace.calls) - 1) :
        sq_trace.calls[j + 1].idx > 1 =>
            /\ sq_trace.calls[j].t = sq_trace.calls[j + 1].t
            /\ sq_trace.calls[j].idx = sq_trace.calls[j + 1].idx - 1

\* both threads have submitted a chain of two requests, and one of them is
\* inside its call while the other has a chain in the record
C26_Witness ==
    /\ Len(sq_trace.calls) = MaxSubmissions
    /\ sq_trace.calls[1].t # sq_trace.calls[3].t
    /\ sq_trace.calls[2].idx = 2
    /\ sq_trace.calls[MaxSubmissions].idx = 2

(***************************************************************************)
(* Properties of kfi_batch_send (SpecBatch).                               *)
(***************************************************************************)
\* the elements kfi_sendv was called for: up to the first hard error
BatchReached(answers) ==
    {i \in 1..Len(answers) :
        \A j \in 1..(i - 1) : answers[j] >= 0 \/ answers[j] = -KFI_EAGAIN}

\* C27: when the fabric answers "try again" for element i of the batch,
\* kfi_batch_send does not return 0.
C27_BatchSurfacesTransient ==
    (/\ batch_call.called
     /\ \E i \in BatchReached(batch_call.answers) :
            batch_call.answers[i] = -KFI_EAGAIN)
        => batch_ret # 0

(***************************************************************************)
(* Properties of the opcode translation (SpecRt).                          *)
(***************************************************************************)
\* the completion opcode that names the same operation as a verbs opcode
WcOfWr(opcode) ==
    CASE opcode = "IB_WR_SEND" -> "IB_WC_SEND"
      [] opcode = "IB_WR_RDMA_READ" -> "IB_WC_RDMA_READ"
      [] opcode = "IB_WR_RDMA_WRITE" -> "IB_WC_RDMA_WRITE"

\* C31: verbs opcode -> flag bits -> completion opcode is the identity on
\* SEND, RDMA_READ and RDMA_WRITE; SEND_WITH_IMM and RDMA_WRITE_WITH_IMM give
\* SEND and RDMA_WRITE; both atomic opcodes translate to KFI_ATOMIC and every
\* other opcode to 0.
C31_OpcodeRoundTrip ==
    rt_call.called =>
        CASE rt_call.opcode \in {"IB_WR_SEND", "IB_WR_RDMA_READ", "IB_WR_RDMA_WRITE"} ->
                 rt_wc = WcOfWr(rt_call.opcode)
          [] rt_call.opcode = "IB_WR_SEND_WITH_IMM" -> rt_wc = WcOfWr("IB_WR_SEND")
          [] rt_call.opcode = "IB_WR_RDMA_WRITE_WITH_IMM" ->
                 rt_wc = WcOfWr("IB_WR_RDMA_WRITE")
          [] rt_call.opcode \in {"IB_WR_ATOMIC_CMP_AND_SWP",
                                 "IB_WR_ATOMIC_FETCH_AND_ADD"} ->
                 rt_flags = {"KFI_ATOMIC"}
          [] OTHER -> rt_flags = {}

\* an RDMA write with immediate data came back as an RDMA write
C31_Witness ==
    /\ rt_call.called
    /\ rt_call.opcode = "IB_WR_RDMA_WRITE_WITH_IMM"
    /\ rt_call.extra = {"KFI_RMA", "KFI_REMOTE_CQ_DATA"}
    /\ rt_wc = "IB_WC_RDMA_WRITE"

(***************************************************************************)
(* Properties of device discovery (SpecDev).                               *)
(***************************************************************************)
\* C32: after any number of kfi_get_devices calls the registry holds at most
\* one entry per name; an entry whose fabric or domain open failed is not in
\* what the call added, and the other entries of the call are.
C32_RegistryOnePerName ==
    /\ \A i, j \in 1..Len(kfi_device_list) :
           i # j => kfi_device_list[i] # kfi_device_list[j]
    /\ dev_ret >= 0 =>
           /\ dev_ret = Cardinality({i \in 1..Len(dev_call.info) :
                                        dev_call.outcome[i] = "ok"})
           /\ dev_ret <= Len(kfi_device_list)
           /\ \A i \in 1..Len(dev_call.info) :
                  dev_call.outcome[i] = "ok" =>
                      \E k \in 1..Len(kfi_device_list) :
                          kfi_device_list[k] = dev_call.info[i]

(***************************************************************************)
(* Error returns of kfi_modify_qp (SpecQP).                                *)
(***************************************************************************)
\* C33: a kfi_modify_qp call that returns an error leaves kqp->state as it
\* was before the call.
C33_ModifyErrorKeepsState ==
    [][(ModifyQp /\ mod_ret' # 0) => qp_state' = qp_state]_vars

\* a call asking for RESET on a QP in RTS returned -EINVAL, and a call
\* asking for RTS on a QP in RTR failed in kfi_enable
C33_Witness ==
    \/ mod_to = "RESET" /\ mod_ret = -EINVAL /\ qp_state = "RTS"
    \/ mod_to = "RTS" /\ mod_ret # 0 /\ qp_state = "RTR" /\ ~ep_enabled

(***************************************************************************)
(* Ordering of the MR cache tree (SpecCacheSeq).                           *)
(***************************************************************************)
\* C34: insertion orders the tree as lookup does (address, then length, then
\* access flags): between calls, the search for the tuple of any cached
\* entry ends at an entry of that tuple, so a get of it is a hit.
C34_InsertedEntriesFound ==
    cpc[Poster] = "idle" =>
        \A i \in LruIds :
            LET found == CacheSearch(cache_root, KeyOf(centries[i]), centries)
            IN /\ found # 0
               /\ KeyOf(centries[found]) = KeyOf(centries[i])

(***************************************************************************)
(* Locking of the key translator (SpecKeyLive).                            *)
(***************************************************************************)
\* thread t is inside a call that has not reached its return
KeyInCall(t) == kpc[t] \notin {"idle", "ret"}

C36_TreeLruOnePerTuple ==
    /\ TreeIds(cache_root) = LruIds
    /\ current_entries = Cardinality(LruIds)
    /\ \A i, j \in LruIds : KeyOf(centries[i]) = KeyOf(centries[j]) => i = j

(***************************************************************************)
(* Flush next to another flush or a get (SpecCacheUsed).                   *)
(***************************************************************************)
\* the entry a thread has unlinked and is about to deregister and free
Unlinking(t) == IF cpc[t] \in {"evict_dereg", "flush_dereg"} THEN cop[t].victim ELSE 0

\* C37: a flush that runs next to a get or another flush never deregisters
\* or frees an entry twice, and the entry it saved to continue its walk from
\* is still linked when it takes the cache lock again.
C37_FlushNoStaleEntry ==
    /\ \A t \in Threads :
          Unlinking(t) # 0 =>
             /\ centries[Unlinking(t)] # NoCEntry
             /\ \A u \in Threads \ {t} : Unlinking(u) # Unlinking(t)
    /\ \A t \in Threads :
          (cpc[t] \in {"flush_dereg", "flush_loop"} /\ cop[t].tmp # 0)
             => cop[t].tmp \in LruIds

(***************************************************************************)
(* The PD usage counter (SpecRes).                                         *)
(***************************************************************************)
\* the calls that create an object on a PD
PdCreateCalls == {"kfi_create_qp", "kfi_alloc_mr", "kfi_get_dma_mr"}

\* C38: in every state the usage counter of a PD is the number of live QPs
\* plus the number of live MRs created on it, and is not negative; a create
\* call that fails leaves every PD and CQ counter as it was.
C38_PdCountsLiveUsers ==
    /\ [](\A p \in PDs :
            /\ pds[p].usecnt =
                  Cardinality(LiveQpsOn(p)) + Cardinality(LiveMrsOn(p))
            /\ pds[p].usecnt >= 0)
    /\ [][((CreateQp \/ AllocMr \/ GetDmaMr) /\ res_ret' # 0)
             => (pds' = pds /\ cqs' = cqs)]_vars

C38_Witness ==
    /\ res_op \in PdCreateCalls
    /\ res_ret # 0
    /\ \E p \in PDs :
          /\ pds[p].usecnt = 2
          /\ LiveQpsOn(p) # {}
          /\ LiveMrsOn(p) # {}

(***************************************************************************)
(* Stopping a progress driver (SpecStop, SpecStopLive).                    *)
(***************************************************************************)
\* C39: once should_stop of a driver is set, its worker starts no further
\* kfi_cq_read, whatever the last one returned, leaves the loop and exits,
\* and the kfi_progress_stop waiting in kthread_stop returns.
C39_StopTerminates ==
    /\ [][\A id \in PtIds :
            (pts[id].should_stop # 0 /\ pts[id].pc = "loop")
               => pts'[id].pc = "loop"]_vars
    /\ \A id \in PtIds :
          (pts[id].should_stop # 0) ~> (pts[id].thread = "exited" /\ pts[id].freed)

\* a stop has returned for a driver whose last read ended in an error, the
\* other driver still running
C39_Witness ==
    \E id \in PtIds :
        /\ pts[id].should_stop # 0
        /\ pts[id].thread = "exited"
        /\ pts[id].freed
        /\ pts[id].ret \in CqReadErrors
        /\ \E o \in PtIds \ {id} : pts[o].thread = "running"

(***************************************************************************)
(* Drivers per device and the slots of progress_threads[] (SpecProg).      *)
(***************************************************************************)
\* the drivers whose worker thread runs, on device d and in all
RunningOn(d) == {id \in PtIds : pts[id].thread = "running" /\ pts[id].device = d}
RunningDrivers == {id \in PtIds : pts[id].thread = "running"}

\* C40: after any sequence of kfi_progress_start and kfi_progress_stop calls
\* at most one driver runs per device, and the count kfi_progress_start
\* tests against MAX_DEVICES is the number of running drivers, so that the
\* slot of a stopped driver is used again.
C40_OneDriverSlotsReused ==
    /\ \A d \in Devices : Cardinality(RunningOn(d)) <= 1
    /\ num_progress_threads = Cardinality(RunningDrivers)

====
